---- MODULE Spec2Model ----
(***************************************************************************)
(* Generic Counter interface (drivers/counter/generic-counter.c): the      *)
(* attribute-namespace builder, its unwinding on failure, and the          *)
(* register / unregister / deferred-release lifecycle of a counter device. *)
(***************************************************************************)
EXTENDS Integers, Sequences, FiniteSets, TLC

(***************************************************************************)
(* Bounds of the model.                                                    *)
(***************************************************************************)
\* ids the instance-id allocator (counter_ida) can hand out
MaxIds == 2
\* devm_counter_unreg resources the owning struct device can hold
MaxDevres == 1

\* the counter_device structures of the drivers
Devices == {1, 2}
\* addresses kzalloc can return for a struct counter_device_state
Wrappers == {1, 2}

(***************************************************************************)
(* C values.                                                               *)
(***************************************************************************)
\* the null pointer, for allocations (labels are <<kind, wrapper, index>>)
NULL == <<"NULL", 0, 0>>
\* the null pointer, for a const char * of the Entity Model
NULL_STR == "(null)"
\* the null pointer, for counter->device_state
NULL_STATE == 0

\* enum synapse_action
SYNAPSE_ACTION_NONE == 0
SYNAPSE_ACTION_RISING_EDGE == 1
SYNAPSE_ACTION_FALLING_EDGE == 2
SYNAPSE_ACTION_BOTH_EDGES == 3

\* enum count_function
COUNT_FUNCTION_INCREASE == 0
COUNT_FUNCTION_DECREASE == 1
COUNT_FUNCTION_PULSE_DIRECTION == 2
COUNT_FUNCTION_QUADRATURE_X1 == 3
COUNT_FUNCTION_QUADRATURE_X2 == 4
COUNT_FUNCTION_QUADRATURE_X4 == 5

synapse_action_str(a) ==
    CASE a = SYNAPSE_ACTION_NONE -> "none"
      [] a = SYNAPSE_ACTION_RISING_EDGE -> "rising edge"
      [] a = SYNAPSE_ACTION_FALLING_EDGE -> "falling edge"
      [] a = SYNAPSE_ACTION_BOTH_EDGES -> "both edges"

count_function_str(f) ==
    CASE f = COUNT_FUNCTION_INCREASE -> "increase"
      [] f = COUNT_FUNCTION_DECREASE -> "decrease"
      [] f = COUNT_FUNCTION_PULSE_DIRECTION -> "pulse-direction"
      [] f = COUNT_FUNCTION_QUADRATURE_X1 -> "quadrature x1"
      [] f = COUNT_FUNCTION_QUADRATURE_X2 -> "quadrature x2"
      [] f = COUNT_FUNCTION_QUADRATURE_X4 -> "quadrature x4"

\* printf's %d
Digit(d) ==
    CASE d = 0 -> "0" [] d = 1 -> "1" [] d = 2 -> "2" [] d = 3 -> "3"
      [] d = 4 -> "4" [] d = 5 -> "5" [] d = 6 -> "6" [] d = 7 -> "7"
      [] d = 8 -> "8" [] d = 9 -> "9"

RECURSIVE DecNat(_)
DecNat(n) == IF n < 10 THEN Digit(n) ELSE DecNat(n \div 10) \o Digit(n % 10)

FormatD(n) == IF n < 0 THEN "-" \o DecNat(0 - n) ELSE DecNat(n)

(***************************************************************************)
(* The Entity Model a driver hands to counter_register (counter.h).        *)
(***************************************************************************)
\* struct counter_signal_ext / counter_count_ext / counter_device_ext
Ext(name, read, write) == [name |-> name, read |-> read, write |-> write]

\* struct counter_signal; the target of a null struct counter_signal *
Signal(id, name, ext) == [null |-> FALSE, id |-> id, name |-> name, ext |-> ext]
NullSignal == [null |-> TRUE, id |-> 0, name |-> NULL_STR, ext |-> <<>>]

\* struct counter_synapse
Synapse(signal, actions_list) ==
    [signal |-> signal, actions_list |-> actions_list,
     num_actions |-> Len(actions_list)]

\* struct counter_count
Count(id, name, functions_list, synapses, ext) ==
    [id |-> id, name |-> name, functions_list |-> functions_list,
     num_functions |-> Len(functions_list), synapses |-> synapses,
     num_synapses |-> Len(synapses), ext |-> ext, num_ext |-> Len(ext)]

\* the accessors of counter->ops that are set
Ops(present) ==
    [o \in {"signal_read", "count_read", "count_write", "function_get",
            "function_set", "action_get", "action_set"} |-> o \in present]

AllOps ==
    Ops({"signal_read", "count_read", "count_write", "function_get",
         "function_set", "action_get", "action_set"})

\* struct counter_device
Device(name, signals, counts, ext, ops) ==
    [name |-> name, signals |-> signals, num_signals |-> Len(signals),
     counts |-> counts, num_counts |-> Len(counts), ext |-> ext,
     num_ext |-> Len(ext), ops |-> ops]

Sig3 == Signal(3, NULL_STR, <<>>)
Sig7 == Signal(7, "A", <<Ext("level", TRUE, FALSE)>>)

Edges2 == <<SYNAPSE_ACTION_RISING_EDGE, SYNAPSE_ACTION_FALLING_EDGE>>

Count0 == Count(0, NULL_STR, <<COUNT_FUNCTION_INCREASE>>,
                <<Synapse(Sig3, Edges2)>>, <<>>)
Count12 == Count(12, "C", <<COUNT_FUNCTION_QUADRATURE_X1, COUNT_FUNCTION_DECREASE>>,
                 <<Synapse(Sig7, <<SYNAPSE_ACTION_BOTH_EDGES>>), Synapse(Sig3, Edges2)>>,
                 <<Ext("preset", TRUE, TRUE), Ext("dummy", FALSE, FALSE)>>)

\* one Signal (id 3), one Count (id 0) with one Synapse on it
SimpleDevice == Device(NULL_STR, <<Sig3>>, <<Count0>>, <<>>, AllOps)
\* two Signals, two Counts, names, extensions, some accessors missing
RichDevice ==
    Device("qe", <<Sig3, Sig7>>, <<Count0, Count12>>, <<Ext("enable", FALSE, TRUE)>>,
           Ops({"count_read", "function_get", "action_get", "action_set"}))
\* the devices that break an invariant of the Entity Model
NoSignalsDevice == Device(NULL_STR, <<>>, <<Count0>>, <<>>, AllOps)
NoCountsDevice == Device(NULL_STR, <<Sig3>>, <<>>, <<>>, AllOps)
NoFunctionsDevice ==
    Device(NULL_STR, <<Sig3>>, <<Count(0, NULL_STR, <<>>, <<Synapse(Sig3, Edges2)>>, <<>>)>>,
           <<>>, AllOps)
NoSynapsesDevice ==
    Device(NULL_STR, <<Sig3>>,
           <<Count(0, NULL_STR, <<COUNT_FUNCTION_INCREASE>>, <<>>, <<>>)>>, <<>>, AllOps)
NullSignalDevice ==
    Device(NULL_STR, <<Sig3>>,
           <<Count(0, NULL_STR, <<COUNT_FUNCTION_INCREASE>>,
                   <<Synapse(NullSignal, Edges2)>>, <<>>)>>, <<>>, AllOps)
NoActionsDevice ==
    Device(NULL_STR, <<Sig3>>,
           <<Count(0, NULL_STR, <<COUNT_FUNCTION_INCREASE>>,
                   <<Synapse(Sig3, <<>>)>>, <<>>)>>, <<>>, AllOps)

\* two Signals with the id 3 and two Counts with the id 0
DuplicateIdsDevice ==
    Device(NULL_STR, <<Sig3, Signal(3, "B", <<>>)>>,
           <<Count0, Count(0, "D", <<COUNT_FUNCTION_INCREASE>>,
                           <<Synapse(Sig3, Edges2)>>, <<>>)>>, <<>>, AllOps)

\* no accessor is set, and every extension (one of the Signal, one of the
\* Count, one of the device) has neither read nor write
Bare == <<Ext("raw", FALSE, FALSE)>>

NoAccessorsDevice ==
    Device(NULL_STR, <<Signal(3, NULL_STR, Bare)>>,
           <<Count(0, NULL_STR, <<COUNT_FUNCTION_INCREASE>>,
                   <<Synapse(Signal(3, NULL_STR, Bare), Edges2)>>, Bare)>>, Bare, Ops({}))

\* the Entity Models drivers pass to counter_register, by name
DeviceModel ==
    [simple |-> SimpleDevice, rich |-> RichDevice, duplicate_ids |-> DuplicateIdsDevice,
     no_accessors |-> NoAccessorsDevice,
     no_signals |-> NoSignalsDevice,
     no_counts |-> NoCountsDevice, no_functions |-> NoFunctionsDevice,
     no_synapses |-> NoSynapsesDevice, null_signal |-> NullSignalDevice,
     no_actions |-> NoActionsDevice]

ModelNames == DOMAIN DeviceModel

\* the systems: one driver with any of the models, or two drivers with
\* well-formed ones ("none": the counter_device is not in use)
Models ==
    {m \in [Devices -> ModelNames \cup {"none"}] :
        /\ m[1] # "none"
        /\ m[2] = "none" \/ (m[1] = "rich" /\ m[2] = "simple")}

(***************************************************************************)
(* Allocation.  A call threads a record b through the functions it calls:  *)
(*   heap        the live allocations,                                     *)
(*   dfree       kfree was called on a pointer that is no live allocation, *)
(*   n           allocation requests made so far in this call,             *)
(*   failAt      the request that fails (-1: none),                        *)
(*   h           the wrapper (struct counter_device_state) of the call,    *)
(*   glp, gl     the groups_list pointer in use and the array behind it,   *)
(*   ds          the fields of *device_state the build assigns,            *)
(*   last        the pointer the last request returned,                    *)
(*   err         the value the last function returned; "OOPS" once the     *)
(*               calling thread has been killed by a null dereference,     *)
(*               after which none of its statements execute,               *)
(*   freed       the pointers kfree was called on, in the order of the     *)
(*               calls,                                                    *)
(*   returned    the ids ida_simple_remove was called on, in the order of  *)
(*               the calls.                                                *)
(***************************************************************************)
kmalloc(b, kind) ==
    IF b.err = "OOPS" THEN b
    ELSE IF b.n = b.failAt
    THEN [b EXCEPT !.n = @ + 1, !.last = NULL]
    ELSE [b EXCEPT !.n = @ + 1, !.last = <<kind, b.h, b.n>>,
                   !.heap = @ \cup {<<kind, b.h, b.n>>}]

kfree(b, p) ==
    IF b.err = "OOPS" \/ p = NULL THEN b
    ELSE IF p \in b.heap THEN [b EXCEPT !.heap = @ \ {p}, !.freed = Append(@, p)]
    ELSE [b EXCEPT !.dfree = TRUE, !.freed = Append(@, p)]

\* return err
Ret(b, err) == IF b.err = "OOPS" THEN b ELSE [b EXCEPT !.err = err]

\* struct counter_device_attr_group after kcalloc and INIT_LIST_HEAD
EmptyGroup ==
    [name |-> NULL, name_str |-> NULL_STR, attrs |-> NULL, attrs_array |-> <<>>,
     attr_list |-> <<>>, num_attr |-> 0]

\* a zeroed struct counter_device_state (kzalloc); gl is the array behind
\* groups_list, groups_array the one behind groups
EmptyState ==
    [id |-> 0, drvdata |-> 0, groups_list |-> NULL, gl |-> <<>>, num_groups |-> 0,
     groups |-> NULL, groups_array |-> <<>>, dev_groups |-> NULL]

\* the component an attribute dispatches on; p is its allocation
Component(p, kind) ==
    [p |-> p, kind |-> kind, signal |-> 0, count |-> 0, synapse |-> 0, ext |-> 0,
     name |-> NULL_STR, size |-> 0]

\* the statements K, run in the state v the statements before them leave
Let(v, K(_)) == K(v)

(***************************************************************************)
(* The Builder.  gi is the index of the group in groups_list (from 1).     *)
(***************************************************************************)
\* counter_attribute_create without dev_attr->store = store
counter_attribute_create_read_only(b, gi, prefix, name, show, store, component) ==
    Let(kmalloc(b, "counter_attr"), LAMBDA b1 :
    IF b1.last = NULL THEN Ret(b1, "ENOMEM") ELSE
    Let(kmalloc(b1, "attr_name"), LAMBDA b2 :
    IF b2.last = NULL THEN Ret(kfree(b2, b1.last), "ENOMEM") ELSE
    Ret([b2 EXCEPT !.gl[gi].attr_list =
                       <<[p |-> b1.last, name_p |-> b2.last, name |-> prefix \o name,
                          show |-> show, store |-> "NULL", component |-> component]>>
                       \o @,
                   !.gl[gi].num_attr = @ + 1], "OK")))

counter_attribute_create(b, gi, prefix, name, show, store, component) ==
    Let(kmalloc(b, "counter_attr"), LAMBDA b1 :
    IF b1.last = NULL THEN Ret(b1, "ENOMEM") ELSE
    Let(kmalloc(b1, "attr_name"), LAMBDA b2 :
    IF b2.last = NULL THEN Ret(kfree(b2, b1.last), "ENOMEM") ELSE
    Ret([b2 EXCEPT !.gl[gi].attr_list =
                       <<[p |-> b1.last, name_p |-> b2.last, name |-> prefix \o name,
                          show |-> show, store |-> store, component |-> component]>>
                       \o @,
                   !.gl[gi].num_attr = @ + 1], "OK")))

\* counter_name_attribute_create without the skip of an absent name
counter_name_attribute_create_always(b, gi, name) ==
    Let(kmalloc(b, "name_comp"), LAMBDA b1 :
    IF b1.last = NULL THEN Ret(b1, "ENOMEM") ELSE
    Let(counter_attribute_create(b1, gi, "", "name",
            "counter_device_attr_name_show", "NULL",
            [Component(b1.last, "name_comp_t") EXCEPT !.name = name]), LAMBDA b2 :
    IF b2.err # "OK" THEN Ret(kfree(b2, b1.last), b2.err) ELSE
    Ret(b2, "OK")))

counter_name_attribute_create(b, gi, name) ==
    IF name = NULL_STR THEN Ret(b, "OK") ELSE
    Let(kmalloc(b, "name_comp"), LAMBDA b1 :
    IF b1.last = NULL THEN Ret(b1, "ENOMEM") ELSE
    Let(counter_attribute_create(b1, gi, "", "name",
            "counter_device_attr_name_show", "NULL",
            [Component(b1.last, "name_comp_t") EXCEPT !.name = name]), LAMBDA b2 :
    IF b2.err # "OK" THEN Ret(kfree(b2, b1.last), b2.err) ELSE
    Ret(b2, "OK")))

RECURSIVE FreeAttrs(_, _)
FreeAttrs(b, list) ==
    IF list = <<>> THEN b
    ELSE FreeAttrs(kfree(kfree(kfree(b, Head(list).name_p), Head(list).component.p),
                         Head(list).p),
                   Tail(list))

\* free_counter_device_attr_list without list_del: the attributes stay on
\* the list
free_counter_device_attr_list_keeps_entries(b, gi) ==
    IF b.err = "OOPS" THEN b
    ELSE FreeAttrs(b, b.gl[gi].attr_list)

free_counter_device_attr_list(b, gi) ==
    IF b.err = "OOPS" THEN b
    ELSE [FreeAttrs(b, b.gl[gi].attr_list) EXCEPT !.gl[gi].attr_list = <<>>]

RECURSIVE SignalExtLoop(_, _, _, _, _)
SignalExtLoop(b, gi, signal, si, i) ==
    IF i > Len(signal.ext) THEN Ret(b, "OK") ELSE
    Let(kmalloc(b, "signal_ext_comp"), LAMBDA b1 :
    IF b1.last = NULL THEN Ret(free_counter_device_attr_list(b1, gi), "ENOMEM") ELSE
    Let(counter_attribute_create(b1, gi, "", signal.ext[i].name,
            IF signal.ext[i].read THEN "counter_signal_ext_show" ELSE "NULL",
            IF signal.ext[i].write THEN "counter_signal_ext_store" ELSE "NULL",
            [Component(b1.last, "signal_ext_comp_t") EXCEPT !.signal = si, !.ext = i]),
        LAMBDA b2 :
    IF b2.err # "OK"
    THEN Ret(free_counter_device_attr_list(kfree(b2, b1.last), gi), b2.err) ELSE
    SignalExtLoop(b2, gi, signal, si, i + 1)))

\* counter_signal_ext_register that passes over an extension with neither
\* read nor write
counter_signal_ext_register_skips_bare(b, gi, signal, si) ==
    SignalExtLoop(b, gi,
                  [signal EXCEPT !.ext = SelectSeq(@, LAMBDA e : e.read \/ e.write)],
                  si, 1)

counter_signal_ext_register(b, gi, signal, si) == SignalExtLoop(b, gi, signal, si, 1)

\* counter_signal_attributes_create without the signal attribute
counter_signal_attributes_create_no_signal(b, gi, counter, signal, si) ==
    Let(counter_name_attribute_create(b, gi, signal.name), LAMBDA b3 :
    IF b3.err # "OK" THEN Ret(free_counter_device_attr_list(b3, gi), b3.err) ELSE
    Let(counter_signal_ext_register(b3, gi, signal, si), LAMBDA b4 :
    IF b4.err # "OK" THEN Ret(free_counter_device_attr_list(b4, gi), b4.err) ELSE
    Ret(b4, "OK")))

counter_signal_attributes_create(b, gi, counter, signal, si) ==
    Let(kmalloc(b, "signal_comp"), LAMBDA b1 :
    IF b1.last = NULL THEN Ret(b1, "ENOMEM") ELSE
    Let(counter_attribute_create(b1, gi, "", "signal",
            IF counter.ops["signal_read"] THEN "counter_signal_show" ELSE "NULL",
            "NULL", [Component(b1.last, "signal_comp_t") EXCEPT !.signal = si]),
        LAMBDA b2 :
    IF b2.err # "OK" THEN Ret(kfree(b2, b1.last), b2.err) ELSE
    Let(counter_name_attribute_create(b2, gi, signal.name), LAMBDA b3 :
    IF b3.err # "OK" THEN Ret(free_counter_device_attr_list(b3, gi), b3.err) ELSE
    Let(counter_signal_ext_register(b3, gi, signal, si), LAMBDA b4 :
    IF b4.err # "OK" THEN Ret(free_counter_device_attr_list(b4, gi), b4.err) ELSE
    Ret(b4, "OK")))))

\* err_free_attr_groups without the loop: the group that failed only
FreeAttrGroups_once(b, base, i) ==
    free_counter_device_attr_list(kfree(b, b.gl[base + i].name), base + i)

\* err_free_attr_groups: do { ... } while (i--), on the groups base+i .. base+0
RECURSIVE FreeAttrGroups(_, _, _)
FreeAttrGroups(b, base, i) ==
    IF i = 1
    THEN free_counter_device_attr_list(kfree(b, b.gl[base + i].name), base + i)
    ELSE FreeAttrGroups(
             free_counter_device_attr_list(kfree(b, b.gl[base + i].name), base + i),
             base, i - 1)

RECURSIVE SignalsLoop(_, _, _)
SignalsLoop(b, counter, i) ==
    IF i > counter.num_signals THEN Ret(b, "OK") ELSE
    Let(kmalloc(b, "group_name"), LAMBDA b1 :
    IF b1.last = NULL THEN Ret(FreeAttrGroups(b1, 0, i), "ENOMEM") ELSE
    Let(counter_signal_attributes_create(
            [b1 EXCEPT !.gl[i].name = b1.last,
                       !.gl[i].name_str = "signal" \o FormatD(counter.signals[i].id)],
            i, counter, counter.signals[i], i), LAMBDA b3 :
    IF b3.err # "OK" THEN Ret(FreeAttrGroups(b3, 0, i), b3.err) ELSE
    SignalsLoop(b3, counter, i + 1)))

counter_signals_register(b, counter) == SignalsLoop(b, counter, 1)

\* kasprintf(GFP_KERNEL, "signal%d_", synapse->signal->id)
SynapsePrefix_none(synapse) == ""

SynapsePrefix(synapse) == "signal" \o FormatD(synapse.signal.id) \o "_"

RECURSIVE SynapsesLoop(_, _, _, _, _, _)
SynapsesLoop(b, gi, counter, count, ci, i) ==
    IF i > count.num_synapses THEN Ret(b, "OK") ELSE
    \* synapse->signal->id through a null synapse->signal
    IF count.synapses[i].signal.null THEN [b EXCEPT !.err = "OOPS"] ELSE
    Let(kmalloc(b, "prefix"), LAMBDA b1 :
    IF b1.last = NULL THEN Ret(free_counter_device_attr_list(b1, gi), "ENOMEM") ELSE
    Let(kmalloc(b1, "action_comp"), LAMBDA b2 :
    IF b2.last = NULL
    THEN Ret(free_counter_device_attr_list(kfree(b2, b1.last), gi), "ENOMEM") ELSE
    Let(counter_attribute_create(b2, gi, SynapsePrefix(count.synapses[i]), "action",
            IF counter.ops["action_get"] THEN "counter_action_show" ELSE "NULL",
            IF counter.ops["action_set"] THEN "counter_action_store" ELSE "NULL",
            [Component(b2.last, "action_comp_t") EXCEPT !.synapse = i, !.count = ci]),
        LAMBDA b3 :
    IF b3.err # "OK"
    THEN Ret(free_counter_device_attr_list(kfree(kfree(b3, b2.last), b1.last), gi),
             b3.err) ELSE
    Let(kmalloc(b3, "avail_comp"), LAMBDA b4 :
    IF b4.last = NULL
    THEN Ret(free_counter_device_attr_list(kfree(b4, b1.last), gi), "ENOMEM") ELSE
    Let(counter_attribute_create(b4, gi, SynapsePrefix(count.synapses[i]),
            "action_available", "counter_synapse_action_available_show", "NULL",
            [Component(b4.last, "action_avail_comp_t")
                 EXCEPT !.synapse = i, !.count = ci,
                        !.size = count.synapses[i].num_actions]), LAMBDA b5 :
    IF b5.err # "OK"
    THEN Ret(free_counter_device_attr_list(kfree(kfree(b5, b4.last), b1.last), gi),
             b5.err) ELSE
    SynapsesLoop(kfree(b5, b1.last), gi, counter, count, ci, i + 1))))))

counter_synapses_register(b, gi, counter, count, ci) ==
    SynapsesLoop(b, gi, counter, count, ci, 1)

RECURSIVE CountExtLoop(_, _, _, _, _)
CountExtLoop(b, gi, count, ci, i) ==
    IF i > count.num_ext THEN Ret(b, "OK") ELSE
    Let(kmalloc(b, "count_ext_comp"), LAMBDA b1 :
    IF b1.last = NULL THEN Ret(free_counter_device_attr_list(b1, gi), "ENOMEM") ELSE
    Let(counter_attribute_create(b1, gi, "", count.ext[i].name,
            IF count.ext[i].read THEN "counter_count_ext_show" ELSE "NULL",
            IF count.ext[i].write THEN "counter_count_ext_store" ELSE "NULL",
            [Component(b1.last, "count_ext_comp_t") EXCEPT !.count = ci, !.ext = i]),
        LAMBDA b2 :
    IF b2.err # "OK"
    THEN Ret(free_counter_device_attr_list(kfree(b2, b1.last), gi), b2.err) ELSE
    CountExtLoop(b2, gi, count, ci, i + 1)))

counter_count_ext_register(b, gi, count, ci) == CountExtLoop(b, gi, count, ci, 1)

counter_count_attributes_create(b, gi, counter, count, ci) ==
    Let(kmalloc(b, "count_comp"), LAMBDA b1 :
    IF b1.last = NULL THEN Ret(b1, "ENOMEM") ELSE
    Let(counter_attribute_create(b1, gi, "", "count",
            IF counter.ops["count_read"] THEN "counter_count_show" ELSE "NULL",
            IF counter.ops["count_write"] THEN "counter_count_store" ELSE "NULL",
            [Component(b1.last, "count_comp_t") EXCEPT !.count = ci]), LAMBDA b2 :
    IF b2.err # "OK" THEN Ret(kfree(b2, b1.last), b2.err) ELSE
    Let(kmalloc(b2, "func_comp"), LAMBDA b3 :
    IF b3.last = NULL THEN Ret(free_counter_device_attr_list(b3, gi), "ENOMEM") ELSE
    Let(counter_attribute_create(b3, gi, "", "function",
            IF counter.ops["function_get"] THEN "counter_function_show" ELSE "NULL",
            IF counter.ops["function_set"] THEN "counter_function_store" ELSE "NULL",
            [Component(b3.last, "count_comp_t") EXCEPT !.count = ci]), LAMBDA b4 :
    IF b4.err # "OK"
    THEN Ret(free_counter_device_attr_list(kfree(b4, b3.last), gi), b4.err) ELSE
    Let(kmalloc(b4, "avail_comp"), LAMBDA b5 :
    IF b5.last = NULL THEN Ret(free_counter_device_attr_list(b5, gi), "ENOMEM") ELSE
    Let(counter_attribute_create(b5, gi, "", "function_available",
            "counter_count_function_available_show", "NULL",
            [Component(b5.last, "func_avail_comp_t")
                 EXCEPT !.count = ci, !.size = count.num_functions]), LAMBDA b6 :
    IF b6.err # "OK"
    THEN Ret(free_counter_device_attr_list(kfree(b6, b5.last), gi), b6.err) ELSE
    Let(counter_name_attribute_create(b6, gi, count.name), LAMBDA b7 :
    IF b7.err # "OK" THEN Ret(free_counter_device_attr_list(b7, gi), b7.err) ELSE
    Let(counter_count_ext_register(b7, gi, count, ci), LAMBDA b8 :
    IF b8.err # "OK" THEN Ret(free_counter_device_attr_list(b8, gi), b8.err) ELSE
    Ret(b8, "OK")))))))))

\* base: the groups the caller's groups_list pointer is advanced by
RECURSIVE CountsLoop(_, _, _, _)
\* the loop with the groups named by the position of the Count
CountsLoop_names_by_position(b, base, counter, i) ==
    IF i > counter.num_counts THEN Ret(b, "OK") ELSE
    Let(kmalloc(b, "group_name"), LAMBDA b1 :
    IF b1.last = NULL THEN Ret(FreeAttrGroups(b1, base, i), "ENOMEM") ELSE
    Let(counter_synapses_register(
            [b1 EXCEPT !.gl[base + i].name = b1.last,
                       !.gl[base + i].name_str = "count" \o FormatD(i - 1)],
            base + i, counter, counter.counts[i], i), LAMBDA b3 :
    IF b3.err # "OK" THEN Ret(FreeAttrGroups(b3, base, i), b3.err) ELSE
    Let(counter_count_attributes_create(b3, base + i, counter, counter.counts[i], i),
        LAMBDA b4 :
    IF b4.err # "OK" THEN Ret(FreeAttrGroups(b4, base, i), b4.err) ELSE
    CountsLoop(b4, base, counter, i + 1))))

CountsLoop(b, base, counter, i) ==
    IF i > counter.num_counts THEN Ret(b, "OK") ELSE
    Let(kmalloc(b, "group_name"), LAMBDA b1 :
    IF b1.last = NULL THEN Ret(FreeAttrGroups(b1, base, i), "ENOMEM") ELSE
    Let(counter_synapses_register(
            [b1 EXCEPT !.gl[base + i].name = b1.last,
                       !.gl[base + i].name_str =
                           "count" \o FormatD(counter.counts[i].id)],
            base + i, counter, counter.counts[i], i), LAMBDA b3 :
    IF b3.err # "OK" THEN Ret(FreeAttrGroups(b3, base, i), b3.err) ELSE
    Let(counter_count_attributes_create(b3, base + i, counter, counter.counts[i], i),
        LAMBDA b4 :
    IF b4.err # "OK" THEN Ret(FreeAttrGroups(b4, base, i), b4.err) ELSE
    CountsLoop(b4, base, counter, i + 1))))

counter_counts_register(b, base, counter) == CountsLoop(b, base, counter, 1)

counter_size_attribute_create(b, gi, size, name) ==
    Let(kmalloc(b, "size_comp"), LAMBDA b1 :
    IF b1.last = NULL THEN Ret(b1, "ENOMEM") ELSE
    Let(counter_attribute_create(b1, gi, "", name,
            "counter_device_attr_size_show", "NULL",
            [Component(b1.last, "size_comp_t") EXCEPT !.size = size]), LAMBDA b2 :
    IF b2.err # "OK" THEN Ret(kfree(b2, b1.last), b2.err) ELSE
    Ret(b2, "OK")))

RECURSIVE DeviceExtLoop(_, _, _, _)
DeviceExtLoop(b, gi, counter, i) ==
    IF i > counter.num_ext THEN Ret(b, "OK") ELSE
    Let(kmalloc(b, "ext_comp"), LAMBDA b1 :
    IF b1.last = NULL THEN Ret(free_counter_device_attr_list(b1, gi), "ENOMEM") ELSE
    Let(counter_attribute_create(b1, gi, "", counter.ext[i].name,
            IF counter.ext[i].read THEN "counter_device_ext_show" ELSE "NULL",
            IF counter.ext[i].write THEN "counter_device_ext_store" ELSE "NULL",
            [Component(b1.last, "ext_comp_t") EXCEPT !.ext = i]), LAMBDA b2 :
    IF b2.err # "OK"
    THEN Ret(free_counter_device_attr_list(kfree(b2, b1.last), gi), b2.err) ELSE
    DeviceExtLoop(b2, gi, counter, i + 1)))

counter_device_ext_register(b, gi, counter) == DeviceExtLoop(b, gi, counter, 1)

counter_global_attr_register(b, gi, counter) ==
    Let(counter_name_attribute_create(b, gi, counter.name), LAMBDA b1 :
    IF b1.err # "OK" THEN Ret(b1, b1.err) ELSE
    Let(counter_size_attribute_create(b1, gi, counter.num_counts, "num_counts"),
        LAMBDA b2 :
    IF b2.err # "OK" THEN Ret(free_counter_device_attr_list(b2, gi), b2.err) ELSE
    Let(counter_size_attribute_create(b2, gi, counter.num_signals, "num_signals"),
        LAMBDA b3 :
    IF b3.err # "OK" THEN Ret(free_counter_device_attr_list(b3, gi), b3.err) ELSE
    Let(counter_device_ext_register(b3, gi, counter), LAMBDA b4 :
    IF b4.err # "OK" THEN Ret(free_counter_device_attr_list(b4, gi), b4.err) ELSE
    Ret(b4, "OK")))))

RECURSIVE FreeGroupsLoop(_, _, _)
FreeGroupsLoop(b, i, num_groups) ==
    IF i > num_groups THEN b
    ELSE FreeGroupsLoop(
             free_counter_device_attr_list(
                 kfree(kfree(b, b.gl[i].name), b.gl[i].attrs), i),
             i + 1, num_groups)

\* free_counter_device_groups_list with the loop from the last group to the
\* first
RECURSIVE FreeGroupsLoopDown(_, _)
FreeGroupsLoopDown(b, i) ==
    IF i < 1 THEN b
    ELSE FreeGroupsLoopDown(
             free_counter_device_attr_list(
                 kfree(kfree(b, b.gl[i].name), b.gl[i].attrs), i),
             i - 1)

free_counter_device_groups_list_from_last(b, groups_list, num_groups) ==
    kfree(FreeGroupsLoopDown(b, num_groups), groups_list)

\* groups_list is b.glp at every call, so that b.gl is the array behind it
free_counter_device_groups_list(b, groups_list, num_groups) ==
    kfree(FreeGroupsLoop(b, 1, num_groups), groups_list)

\* prepare_counter_device_groups_list that returns the error of
\* counter_counts_register without freeing the groups of the Signals
prepare_counter_device_groups_list_keeps_signals(b, counter) ==
    Let(kmalloc(b, "groups_list"), LAMBDA b0 :
    IF b0.last = NULL THEN Ret(b0, "ENOMEM") ELSE
    Let(counter_signals_register(
            [b0 EXCEPT !.glp = b0.last,
                       !.gl = [i \in 1..(counter.num_signals + counter.num_counts + 1)
                                  |-> EmptyGroup]],
            counter), LAMBDA b2 :
    IF b2.err # "OK" THEN Ret(free_counter_device_groups_list(b2, b2.glp, 0), b2.err)
    ELSE
    Let(counter_counts_register(b2, counter.num_signals, counter), LAMBDA b3 :
    IF b3.err # "OK" THEN Ret(b3, b3.err) ELSE
    Let(counter_global_attr_register(
            b3, counter.num_signals + counter.num_counts + 1, counter), LAMBDA b4 :
    IF b4.err # "OK"
    THEN Ret(free_counter_device_groups_list(
                 b4, b4.glp, counter.num_signals + counter.num_counts), b4.err)
    ELSE
    Ret([b4 EXCEPT !.ds.groups_list = b4.glp,
                   !.ds.num_groups = counter.num_signals + counter.num_counts + 1],
        "OK")))))

prepare_counter_device_groups_list(b, counter) ==
    Let(kmalloc(b, "groups_list"), LAMBDA b0 :
    IF b0.last = NULL THEN Ret(b0, "ENOMEM") ELSE
    Let(counter_signals_register(
            [b0 EXCEPT !.glp = b0.last,
                       !.gl = [i \in 1..(counter.num_signals + counter.num_counts + 1)
                                  |-> EmptyGroup]],
            counter), LAMBDA b2 :
    IF b2.err # "OK" THEN Ret(free_counter_device_groups_list(b2, b2.glp, 0), b2.err)
    ELSE
    Let(counter_counts_register(b2, counter.num_signals, counter), LAMBDA b3 :
    IF b3.err # "OK"
    THEN Ret(free_counter_device_groups_list(b3, b3.glp, counter.num_signals), b3.err)
    ELSE
    Let(counter_global_attr_register(
            b3, counter.num_signals + counter.num_counts + 1, counter), LAMBDA b4 :
    IF b4.err # "OK"
    THEN Ret(free_counter_device_groups_list(
                 b4, b4.glp, counter.num_signals + counter.num_counts), b4.err)
    ELSE
    Ret([b4 EXCEPT !.ds.groups_list = b4.glp,
                   !.ds.num_groups = counter.num_signals + counter.num_counts + 1],
        "OK")))))

\* the same loop walking the list from its tail (list_for_each_entry_reverse)
AttrPointers_from_tail(attr_list) ==
    [j \in 1..Len(attr_list) |-> attr_list[Len(attr_list) + 1 - j].p]

\* list_for_each_entry(p, &group->attr_list, l) attrs[j++] = &p->dev_attr.attr
AttrPointers(attr_list) == [j \in 1..Len(attr_list) |-> attr_list[j].p]

RECURSIVE GroupsLoop(_, _)
GroupsLoop(b, i) ==
    IF i > b.ds.num_groups
    THEN Ret([b EXCEPT !.ds.dev_groups = b.ds.groups], "OK") ELSE
    Let(kmalloc(b, "attrs"), LAMBDA b1 :
    IF b1.last = NULL
    THEN Ret(kfree([b1 EXCEPT !.gl[i].attrs = NULL], b1.ds.groups), "ENOMEM") ELSE
    GroupsLoop([b1 EXCEPT !.gl[i].attrs = b1.last,
                          !.gl[i].attrs_array = AttrPointers(b1.gl[i].attr_list),
                          !.ds.groups_array = Append(@, i)],
               i + 1))

prepare_counter_device_groups(b) ==
    Let(kmalloc(b, "groups"), LAMBDA b0 :
    IF b0.last = NULL
    THEN Ret([b0 EXCEPT !.ds.groups = NULL, !.ds.groups_array = <<>>], "ENOMEM") ELSE
    GroupsLoop([b0 EXCEPT !.ds.groups = b0.last, !.ds.groups_array = <<>>], 1))

(***************************************************************************)
(* The Enum Adapter (lines 47-234).  Text is a sequence of characters.  An *)
(* enum extension e is the struct counter_*_enum_ext: e.items,             *)
(* e.num_items, and whether e.get and e.set are set.  The driver behind    *)
(* the callbacks keeps the index of the active item: get stores it through *)
(* its pointer argument unless it fails with drv.get_err, set replaces it  *)
(* unless it fails with drv.set_err.                                       *)
(***************************************************************************)
MaxItems == 2

PAGE_SIZE == 4096

\* "%s\n"
FormatS(item) == Append(item, "\n")

\* scnprintf(buf + len, size, ...): at most size - 1 characters of text are
\* written after the len characters of buf
scnprintf(buf, size, text) ==
    IF size = 0 THEN buf
    ELSE buf \o SubSeq(text, 1, IF Len(text) < size - 1 THEN Len(text) ELSE size - 1)

Whitespace == {"\n", " "}

\* the text without its trailing whitespace
RECURSIVE Trim(_)
Trim(str) ==
    IF str # <<>> /\ str[Len(str)] \in Whitespace
    THEN Trim(SubSeq(str, 1, Len(str) - 1))
    ELSE str

\* __sysfs_match_string: the index of the first of the n items that is the
\* trimmed text, or the failure NotFound
sysfs_match_string(items, n, str) ==
    IF \E i \in 1..n : items[i] = Trim(str)
    THEN [err |-> "OK", index |-> (CHOOSE i \in 1..n :
                                       /\ items[i] = Trim(str)
                                       /\ \A j \in 1..(i - 1) : items[j] # Trim(str)) - 1]
    ELSE [err |-> "NotFound", index |-> 0]

\* e->get(counter, <ctx>, &index)
get(drv, ctx) ==
    [err |-> drv.get_err, index |-> drv.index, call |-> [fn |-> "get", ctx |-> ctx]]

\* e->set(counter, <ctx>, index)
set(drv, ctx, index) ==
    [err |-> drv.set_err,
     driver |-> IF drv.set_err = "OK" THEN [drv EXCEPT !.index = index] ELSE drv,
     call |-> [fn |-> "set", ctx |-> ctx, index |-> index]]

\* what a call of the adapter returns (err, or val when err is OK), what it
\* left in buf, the callbacks it called, and the driver after it
Returns(err, val, buf, calls, drv) ==
    [err |-> err, val |-> val, buf |-> buf, calls |-> calls, driver |-> drv]

\* counter_signal_enum_read without the check of e->get
counter_signal_enum_read_calls_get(e, drv) ==
    Let(get(drv, "signal"), LAMBDA g :
    IF g.err # "OK" THEN Returns(g.err, 0, <<>>, <<g.call>>, drv) ELSE
    IF g.index >= e.num_items THEN Returns("EINVAL", 0, <<>>, <<g.call>>, drv) ELSE
    Let(scnprintf(<<>>, PAGE_SIZE, FormatS(e.items[g.index + 1])), LAMBDA buf :
    Returns("OK", Len(buf), buf, <<g.call>>, drv)))

counter_signal_enum_read(e, drv) ==
    IF ~e.get THEN Returns("EINVAL", 0, <<>>, <<>>, drv) ELSE
    Let(get(drv, "signal"), LAMBDA g :
    IF g.err # "OK" THEN Returns(g.err, 0, <<>>, <<g.call>>, drv) ELSE
    IF g.index >= e.num_items THEN Returns("EINVAL", 0, <<>>, <<g.call>>, drv) ELSE
    Let(scnprintf(<<>>, PAGE_SIZE, FormatS(e.items[g.index + 1])), LAMBDA buf :
    Returns("OK", Len(buf), buf, <<g.call>>, drv)))

\* counter_signal_enum_write with e->set called on the item after the match
counter_signal_enum_write_off_by_one(e, drv, buf, len) ==
    IF ~e.set THEN Returns("EINVAL", 0, buf, <<>>, drv) ELSE
    Let(sysfs_match_string(e.items, e.num_items, buf), LAMBDA m :
    IF m.err # "OK" THEN Returns(m.err, 0, buf, <<>>, drv) ELSE
    Let(set(drv, "signal", m.index + 1), LAMBDA st :
    IF st.err # "OK" THEN Returns(st.err, 0, buf, <<st.call>>, st.driver) ELSE
    Returns("OK", len, buf, <<st.call>>, st.driver)))

counter_signal_enum_write(e, drv, buf, len) ==
    IF ~e.set THEN Returns("EINVAL", 0, buf, <<>>, drv) ELSE
    Let(sysfs_match_string(e.items, e.num_items, buf), LAMBDA m :
    IF m.err # "OK" THEN Returns(m.err, 0, buf, <<>>, drv) ELSE
    Let(set(drv, "signal", m.index), LAMBDA st :
    IF st.err # "OK" THEN Returns(st.err, 0, buf, <<st.call>>, st.driver) ELSE
    Returns("OK", len, buf, <<st.call>>, st.driver)))

\* the loop of the *_enum_available_read functions from item i on
RECURSIVE AvailableLoop(_, _, _)
AvailableLoop(e, i, buf) ==
    IF i >= e.num_items THEN buf
    ELSE AvailableLoop(e, i + 1,
                       scnprintf(buf, PAGE_SIZE - Len(buf), FormatS(e.items[i + 1])))

counter_signal_enum_available_read(e, drv) ==
    IF e.num_items = 0 THEN Returns("OK", 0, <<>>, <<>>, drv) ELSE
    Let(AvailableLoop(e, 0, <<>>), LAMBDA buf :
    Returns("OK", Len(buf), buf, <<>>, drv))

\* counter_count_enum_read without the check of what e->get returned
counter_count_enum_read_ignores_get_error(e, drv) ==
    IF ~e.get THEN Returns("EINVAL", 0, <<>>, <<>>, drv) ELSE
    Let(get(drv, "count"), LAMBDA g :
    IF g.index >= e.num_items THEN Returns("EINVAL", 0, <<>>, <<g.call>>, drv) ELSE
    Let(scnprintf(<<>>, PAGE_SIZE, FormatS(e.items[g.index + 1])), LAMBDA buf :
    Returns("OK", Len(buf), buf, <<g.call>>, drv)))

counter_count_enum_read(e, drv) ==
    IF ~e.get THEN Returns("EINVAL", 0, <<>>, <<>>, drv) ELSE
    Let(get(drv, "count"), LAMBDA g :
    IF g.err # "OK" THEN Returns(g.err, 0, <<>>, <<g.call>>, drv) ELSE
    IF g.index >= e.num_items THEN Returns("EINVAL", 0, <<>>, <<g.call>>, drv) ELSE
    Let(scnprintf(<<>>, PAGE_SIZE, FormatS(e.items[g.index + 1])), LAMBDA buf :
    Returns("OK", Len(buf), buf, <<g.call>>, drv)))

\* counter_count_enum_write without the check of the match
counter_count_enum_write_unmatched(e, drv, buf, len) ==
    IF ~e.set THEN Returns("EINVAL", 0, buf, <<>>, drv) ELSE
    Let(sysfs_match_string(e.items, e.num_items, buf), LAMBDA m :
    Let(set(drv, "count", m.index), LAMBDA st :
    IF st.err # "OK" THEN Returns(st.err, 0, buf, <<st.call>>, st.driver) ELSE
    Returns("OK", len, buf, <<st.call>>, st.driver)))

counter_count_enum_write(e, drv, buf, len) ==
    IF ~e.set THEN Returns("EINVAL", 0, buf, <<>>, drv) ELSE
    Let(sysfs_match_string(e.items, e.num_items, buf), LAMBDA m :
    IF m.err # "OK" THEN Returns(m.err, 0, buf, <<>>, drv) ELSE
    Let(set(drv, "count", m.index), LAMBDA st :
    IF st.err # "OK" THEN Returns(st.err, 0, buf, <<st.call>>, st.driver) ELSE
    Returns("OK", len, buf, <<st.call>>, st.driver)))

\* counter_count_enum_available_read with the loop started at the second item
counter_count_enum_available_read_skips_first(e, drv) ==
    IF e.num_items = 0 THEN Returns("OK", 0, <<>>, <<>>, drv) ELSE
    Let(AvailableLoop(e, 1, <<>>), LAMBDA buf :
    Returns("OK", Len(buf), buf, <<>>, drv))

counter_count_enum_available_read(e, drv) ==
    IF e.num_items = 0 THEN Returns("OK", 0, <<>>, <<>>, drv) ELSE
    Let(AvailableLoop(e, 0, <<>>), LAMBDA buf :
    Returns("OK", Len(buf), buf, <<>>, drv))

counter_device_enum_read(e, drv) ==
    IF ~e.get THEN Returns("EINVAL", 0, <<>>, <<>>, drv) ELSE
    Let(get(drv, "device"), LAMBDA g :
    IF g.err # "OK" THEN Returns(g.err, 0, <<>>, <<g.call>>, drv) ELSE
    IF g.index >= e.num_items THEN Returns("EINVAL", 0, <<>>, <<g.call>>, drv) ELSE
    Let(scnprintf(<<>>, PAGE_SIZE, FormatS(e.items[g.index + 1])), LAMBDA buf :
    Returns("OK", Len(buf), buf, <<g.call>>, drv)))

\* counter_device_enum_write without the check of what e->set returned
counter_device_enum_write_ignores_set_error(e, drv, buf, len) ==
    IF ~e.set THEN Returns("EINVAL", 0, buf, <<>>, drv) ELSE
    Let(sysfs_match_string(e.items, e.num_items, buf), LAMBDA m :
    IF m.err # "OK" THEN Returns(m.err, 0, buf, <<>>, drv) ELSE
    Let(set(drv, "device", m.index), LAMBDA st :
    Returns("OK", len, buf, <<st.call>>, st.driver)))

counter_device_enum_write(e, drv, buf, len) ==
    IF ~e.set THEN Returns("EINVAL", 0, buf, <<>>, drv) ELSE
    Let(sysfs_match_string(e.items, e.num_items, buf), LAMBDA m :
    IF m.err # "OK" THEN Returns(m.err, 0, buf, <<>>, drv) ELSE
    Let(set(drv, "device", m.index), LAMBDA st :
    IF st.err # "OK" THEN Returns(st.err, 0, buf, <<st.call>>, st.driver) ELSE
    Returns("OK", len, buf, <<st.call>>, st.driver)))

counter_device_enum_available_read(e, drv) ==
    IF e.num_items = 0 THEN Returns("OK", 0, <<>>, <<>>, drv) ELSE
    Let(AvailableLoop(e, 0, <<>>), LAMBDA buf :
    Returns("OK", Len(buf), buf, <<>>, drv))

\* the option strings of the tables, the tables, and the texts written
Labels == {<<"a">>, <<"b">>, <<"a", "b">>}

Tables == UNION {[1..n -> Labels] : n \in 0..MaxItems}

Written ==
    {<<>>, <<"\n">>, <<"a">>, <<"b">>, <<"c">>, <<"a", "b">>, <<"b", "a">>,
     <<"a", "\n">>, <<"a", "b", "\n">>}

Kinds == {"signal", "count", "device"}

\* the enum extensions, and the states of the driver behind their callbacks
EnumExts ==
    {[kind |-> k, items |-> t, num_items |-> Len(t), get |-> g, set |-> st] :
        k \in Kinds, t \in Tables, g \in BOOLEAN, st \in BOOLEAN}

DriverStates ==
    [index : 0..MaxItems, get_err : {"OK", "EIO"}, set_err : {"OK", "EBUSY"}]

NoEnum == [kind |-> "signal", items |-> <<>>, num_items |-> 0, get |-> FALSE, set |-> FALSE]

NoDriver == [index |-> 0, get_err |-> "OK", set_err |-> "OK"]

\* no call yet; prev is the call before the last one
NoCall == [op |-> "none", written |-> <<>>, err |-> "OK"]

NoIo ==
    [op |-> "none", written |-> <<>>, err |-> "OK", val |-> 0, buf |-> <<>>,
     calls |-> <<>>, prev |-> NoCall]

(***************************************************************************)
(* The dispatch thunks: the show and store functions of the attributes.    *)
(* Here text is a string.  k holds the two fields of the Entity Model the  *)
(* thunks write: k.function[ci] is counts[ci].function and                 *)
(* k.action[ci][si] is counts[ci].synapses[si].action.  acc is what the    *)
(* accessor or callback of the driver does when the thunk calls it: it     *)
(* returns acc.err, and on success hands back acc.index or acc.text.  ub   *)
(* is what a read past the end of a list yields: "oops" (the thread is     *)
(* killed) or any value of the enum.                                       *)
(***************************************************************************)
\* the caches of a counter_device nobody has read or written yet
NoCaches(counter) ==
    [function |-> [ci \in 1..counter.num_counts |-> 0],
     action |-> [ci \in 1..counter.num_counts |->
                    [si \in 1..counter.counts[ci].num_synapses |-> 0]]]

\* what a thunk returns (err, or val when err is OK), what it left in buf,
\* the caches after it, whether it read past the end of a list; calls: the
\* calls of the driver's callbacks it made
Thunk(err, val, buf, k, past) ==
    [err |-> err, val |-> val, buf |-> buf, caches |-> k, past |-> past, calls |-> <<>>]

\* the thunk that returns r called the callback fn of the driver, with index
\* where the callback takes one (0 where it takes none)
Calling(fn, index, r) == [r EXCEPT !.calls = <<[fn |-> fn, index |-> index]>>]

\* sysfs_streq: equal, a single trailing newline of either aside
sysfs_streq(s1, s2) == s1 = s2 \/ s1 = s2 \o "\n" \/ s1 \o "\n" = s2

counter_signal_show(counter, k, component, acc) ==
    Calling("signal_read", 0,
        IF acc.err # "OK" THEN Thunk(acc.err, 0, "", k, FALSE) ELSE
        Thunk("OK", Len(acc.text), acc.text, k, FALSE))

counter_device_attr_name_show(k, comp) ==
    Let(scnprintf("", PAGE_SIZE, comp.name \o "\n"), LAMBDA buf :
    Thunk("OK", Len(buf), buf, k, FALSE))

counter_signal_ext_show(k, comp, acc) ==
    Calling("read", 0,
        IF acc.err # "OK" THEN Thunk(acc.err, 0, "", k, FALSE) ELSE
        Thunk("OK", Len(acc.text), acc.text, k, FALSE))

counter_signal_ext_store(k, comp, buf, len, acc) ==
    Calling("write", 0,
        IF acc.err # "OK" THEN Thunk(acc.err, 0, buf, k, FALSE) ELSE
        Thunk("OK", len, buf, k, FALSE))

counter_action_show(counter, k, component, acc, ub) ==
    Calling("action_get", 0,
    IF acc.err # "OK" THEN Thunk(acc.err, 0, "", k, FALSE) ELSE
    Let([k EXCEPT !.action[component.count][component.synapse] = acc.index],
        LAMBDA k1 :
    IF acc.index >= counter.counts[component.count].synapses[component.synapse].num_actions
    THEN \* synapse->actions_list[action_index] is past the end of the list
         IF ub.kill THEN Thunk("OOPS", 0, "", k1, TRUE)
         ELSE Let(scnprintf("", PAGE_SIZE, synapse_action_str(ub.read) \o "\n"), LAMBDA buf :
              Thunk("OK", Len(buf), buf, k1, TRUE))
    ELSE
    Let(scnprintf("", PAGE_SIZE,
            synapse_action_str(
                counter.counts[component.count].synapses[component.synapse]
                    .actions_list[acc.index + 1]) \o "\n"), LAMBDA buf :
    Thunk("OK", Len(buf), buf, k1, FALSE))))

\* the for loop of counter_action_store from action_index on: where it stops
RECURSIVE ActionLoop(_, _, _)
ActionLoop(synapse, buf, action_index) ==
    IF action_index >= synapse.num_actions THEN action_index
    ELSE IF sysfs_streq(buf, synapse_action_str(synapse.actions_list[action_index + 1]))
    THEN action_index
    ELSE ActionLoop(synapse, buf, action_index + 1)

\* counter_action_store with synapse->action written before action_set is called
counter_action_store_caches_first(counter, k, component, buf, len, acc) ==
    Let(ActionLoop(counter.counts[component.count].synapses[component.synapse], buf, 0),
        LAMBDA action_index :
    IF action_index
           >= counter.counts[component.count].synapses[component.synapse].num_actions
    THEN Thunk("EINVAL", 0, buf, k, FALSE) ELSE
    Let([k EXCEPT !.action[component.count][component.synapse] = action_index],
        LAMBDA k1 :
    IF acc.err # "OK" THEN Thunk(acc.err, 0, buf, k1, FALSE) ELSE
    Thunk("OK", len, buf, k1, FALSE)))

counter_action_store(counter, k, component, buf, len, acc) ==
    Let(ActionLoop(counter.counts[component.count].synapses[component.synapse], buf, 0),
        LAMBDA action_index :
    IF action_index
           >= counter.counts[component.count].synapses[component.synapse].num_actions
    THEN Thunk("EINVAL", 0, buf, k, FALSE) ELSE
    Calling("action_set", action_index,
    IF acc.err # "OK" THEN Thunk(acc.err, 0, buf, k, FALSE) ELSE
    Thunk("OK", len, buf,
          [k EXCEPT !.action[component.count][component.synapse] = action_index],
          FALSE)))

\* the for loop of counter_synapse_action_available_show from i on
RECURSIVE ActionAvailableLoop(_, _, _, _)
ActionAvailableLoop(actions_list, num_actions, i, buf) ==
    IF i >= num_actions THEN buf
    ELSE ActionAvailableLoop(
             actions_list, num_actions, i + 1,
             scnprintf(buf, PAGE_SIZE - Len(buf),
                       synapse_action_str(actions_list[i + 1]) \o "\n"))

\* the same function with the list read from its end to its start
counter_synapse_action_available_show_reversed(counter, k, component) ==
    Let(ActionAvailableLoop(
            [i \in 1..component.size |->
                counter.counts[component.count].synapses[component.synapse]
                    .actions_list[component.size + 1 - i]],
            component.size, 0, ""), LAMBDA buf :
    Thunk("OK", Len(buf), buf, k, FALSE))

counter_synapse_action_available_show(counter, k, component) ==
    Let(ActionAvailableLoop(
            counter.counts[component.count].synapses[component.synapse].actions_list,
            component.size, 0, ""), LAMBDA buf :
    Thunk("OK", Len(buf), buf, k, FALSE))

counter_count_show(counter, k, component, acc) ==
    Calling("count_read", 0,
        IF acc.err # "OK" THEN Thunk(acc.err, 0, "", k, FALSE) ELSE
        Thunk("OK", Len(acc.text), acc.text, k, FALSE))

\* counter_count_store returning len whatever count_write returned
counter_count_store_returns_len(counter, k, component, buf, len, acc) ==
    Thunk("OK", len, buf, k, FALSE)

counter_count_store(counter, k, component, buf, len, acc) ==
    Calling("count_write", 0,
        IF acc.err # "OK" THEN Thunk(acc.err, 0, buf, k, FALSE) ELSE
        Thunk("OK", len, buf, k, FALSE))

counter_function_show(counter, k, component, acc, ub) ==
    Calling("function_get", 0,
    IF acc.err # "OK" THEN Thunk(acc.err, 0, "", k, FALSE) ELSE
    Let([k EXCEPT !.function[component.count] = acc.index], LAMBDA k1 :
    IF acc.index >= counter.counts[component.count].num_functions
    THEN \* count->functions_list[func_index] is past the end of the list
         IF ub.kill THEN Thunk("OOPS", 0, "", k1, TRUE)
         ELSE Let(scnprintf("", PAGE_SIZE, count_function_str(ub.read) \o "\n"), LAMBDA buf :
              Thunk("OK", Len(buf), buf, k1, TRUE))
    ELSE
    Let(scnprintf("", PAGE_SIZE,
            count_function_str(
                counter.counts[component.count].functions_list[acc.index + 1]) \o "\n"),
        LAMBDA buf :
    Thunk("OK", Len(buf), buf, k1, FALSE))))

\* the for loop of counter_function_store from func_index on: where it stops
RECURSIVE FunctionLoop(_, _, _)
FunctionLoop(count, buf, func_index) ==
    IF func_index >= count.num_functions THEN func_index
    ELSE IF sysfs_streq(buf, count_function_str(count.functions_list[func_index + 1]))
    THEN func_index
    ELSE FunctionLoop(count, buf, func_index + 1)

\* counter_function_store without the return of -EINVAL when the loop found
\* no function
counter_function_store_unchecked(counter, k, component, buf, len, acc) ==
    Let(FunctionLoop(counter.counts[component.count], buf, 0), LAMBDA func_index :
    Calling("function_set", func_index,
    IF acc.err # "OK" THEN Thunk(acc.err, 0, buf, k, FALSE) ELSE
    Thunk("OK", len, buf, [k EXCEPT !.function[component.count] = func_index], FALSE)))

counter_function_store(counter, k, component, buf, len, acc) ==
    Let(FunctionLoop(counter.counts[component.count], buf, 0), LAMBDA func_index :
    IF func_index >= counter.counts[component.count].num_functions
    THEN Thunk("EINVAL", 0, buf, k, FALSE) ELSE
    Calling("function_set", func_index,
    IF acc.err # "OK" THEN Thunk(acc.err, 0, buf, k, FALSE) ELSE
    Thunk("OK", len, buf, [k EXCEPT !.function[component.count] = func_index], FALSE)))

counter_count_ext_show(k, comp, acc) ==
    Calling("read", 0,
        IF acc.err # "OK" THEN Thunk(acc.err, 0, "", k, FALSE) ELSE
        Thunk("OK", Len(acc.text), acc.text, k, FALSE))

counter_count_ext_store(k, comp, buf, len, acc) ==
    Calling("write", 0,
        IF acc.err # "OK" THEN Thunk(acc.err, 0, buf, k, FALSE) ELSE
        Thunk("OK", len, buf, k, FALSE))

\* the for loop of counter_count_function_available_show from i on
RECURSIVE FunctionAvailableLoop(_, _, _, _)
FunctionAvailableLoop(func_list, num_functions, i, buf) ==
    IF i >= num_functions THEN buf
    ELSE FunctionAvailableLoop(
             func_list, num_functions, i + 1,
             scnprintf(buf, PAGE_SIZE - Len(buf),
                       count_function_str(func_list[i + 1]) \o "\n"))

counter_count_function_available_show(counter, k, component) ==
    Let(FunctionAvailableLoop(counter.counts[component.count].functions_list,
                              component.size, 0, ""), LAMBDA buf :
    Thunk("OK", Len(buf), buf, k, FALSE))

\* counter_device_attr_size_show with the size counted from one
counter_device_attr_size_show_plus_one(k, comp) ==
    Let(scnprintf("", PAGE_SIZE, FormatD(comp.size + 1) \o "\n"), LAMBDA buf :
    Thunk("OK", Len(buf), buf, k, FALSE))

\* "%zu\n"
counter_device_attr_size_show(k, comp) ==
    Let(scnprintf("", PAGE_SIZE, FormatD(comp.size) \o "\n"), LAMBDA buf :
    Thunk("OK", Len(buf), buf, k, FALSE))

counter_device_ext_show(k, component, acc) ==
    Calling("read", 0,
        IF acc.err # "OK" THEN Thunk(acc.err, 0, "", k, FALSE) ELSE
        Thunk("OK", Len(acc.text), acc.text, k, FALSE))

counter_device_ext_store(k, component, buf, len, acc) ==
    Calling("write", 0,
        IF acc.err # "OK" THEN Thunk(acc.err, 0, buf, k, FALSE) ELSE
        Thunk("OK", len, buf, k, FALSE))

\* dev_attr->show(dev, attr, buf) of the attribute a
show(counter, k, a, acc, ub) ==
    CASE a.show = "counter_signal_show" -> counter_signal_show(counter, k, a.component, acc)
      [] a.show = "counter_device_attr_name_show" ->
             counter_device_attr_name_show(k, a.component)
      [] a.show = "counter_signal_ext_show" -> counter_signal_ext_show(k, a.component, acc)
      [] a.show = "counter_action_show" ->
             counter_action_show(counter, k, a.component, acc, ub)
      [] a.show = "counter_synapse_action_available_show" ->
             counter_synapse_action_available_show(counter, k, a.component)
      [] a.show = "counter_count_show" -> counter_count_show(counter, k, a.component, acc)
      [] a.show = "counter_function_show" ->
             counter_function_show(counter, k, a.component, acc, ub)
      [] a.show = "counter_count_function_available_show" ->
             counter_count_function_available_show(counter, k, a.component)
      [] a.show = "counter_count_ext_show" -> counter_count_ext_show(k, a.component, acc)
      [] a.show = "counter_device_attr_size_show" ->
             counter_device_attr_size_show(k, a.component)
      [] a.show = "counter_device_ext_show" -> counter_device_ext_show(k, a.component, acc)

\* dev_attr->store(dev, attr, buf, len) of the attribute a
store(counter, k, a, buf, len, acc) ==
    CASE a.store = "counter_signal_ext_store" ->
             counter_signal_ext_store(k, a.component, buf, len, acc)
      [] a.store = "counter_action_store" ->
             counter_action_store(counter, k, a.component, buf, len, acc)
      [] a.store = "counter_count_store" ->
             counter_count_store(counter, k, a.component, buf, len, acc)
      [] a.store = "counter_function_store" ->
             counter_function_store(counter, k, a.component, buf, len, acc)
      [] a.store = "counter_count_ext_store" ->
             counter_count_ext_store(k, a.component, buf, len, acc)
      [] a.store = "counter_device_ext_store" ->
             counter_device_ext_store(k, a.component, buf, len, acc)

\* what the driver's callback did: its return value, the index it reported
\* (action_get, function_get), the text it left in the buffer (signal_read,
\* count_read, the read of an extension)
Accessor(err, index, text) == [err |-> err, index |-> index, text |-> text]

NoAccessor == Accessor("OK", 0, "")

\* the largest index a driver reports
MaxIndex == 2

Accessors ==
    {Accessor("EIO", 0, "")} \cup {Accessor("OK", i, "7\n") : i \in 0..MaxIndex}

\* what a read past the end of a list does: it kills the thread, or yields
\* whatever is in the memory behind the list
PastTheEnd == [kill : BOOLEAN, read : {SYNAPSE_ACTION_NONE}]

\* what external callers write
Inputs == {"rising edge", "falling edge\n", "both edges", "increase\n", "decrease", "bogus"}

\* the caches as the drivers of the system m declared them
InitialCaches(m) ==
    [d \in Devices |->
        IF m[d] = "none" THEN [function |-> <<>>, action |-> <<>>]
        ELSE NoCaches(DeviceModel[m[d]])]

\* no show or store was made yet
NoDispatch ==
    [phase |-> "idle", h |-> 0, gi |-> 0, j |-> 0, op |-> "none", written |-> "",
     acc |-> NoAccessor, err |-> "OK", val |-> 0, buf |-> "", past |-> FALSE,
     calls |-> <<>>]

\* the external callers whose shows and stores run at the same time
MaxCallers == 2

Callers == 1..MaxCallers

\* a caller that is in no show or store
Outside ==
    [pc |-> "outside", h |-> 0, gi |-> 0, j |-> 0, op |-> "none", buf |-> "",
     acc |-> NoAccessor]

(***************************************************************************)
(* The state.                                                              *)
(***************************************************************************)
VARIABLES
    model,          \* model[d]: the name of the Entity Model of counter_device d
    device_state,   \* device_state[d]: counter->device_state
    wrappers,       \* wrappers[h]: the struct counter_device_state at address h
    heap,           \* the live allocations
    dfree,          \* kfree was called on a pointer that was no live allocation
    ida,            \* counter_ida: the ids handed out
    host,           \* host[h]: what the driver core holds of the struct device in h
    ndel,           \* ndel[h]: device_del requests on it while the core holds it (2: more)
    pc,             \* pc[d]: where the thread that registers d is
    ret,            \* what the (devm_)counter_register of the last step returned, and where
    managed,        \* managed[d]: the call in progress is devm_counter_register's
    devres,         \* the devm_counter_unreg resources of the owning struct device
    unreg_log,      \* the counter_unregister calls devres made in the last step (0: killed)
    oops,           \* a thread was killed by a bad dereference
    uaf,            \* memory was accessed through a pointer to a freed allocation
    failed,         \* failed[d]: a (devm_)counter_register of d has returned an error
    enum_ext,       \* the enum extension the adapter is called on
    driver,         \* the driver behind the callbacks of enum_ext
    io,             \* the last call of the adapter: what was written, returned, read
    caches,         \* caches[d]: Count.function and Synapse.action of counter_device d
    dispatch,       \* the show or store the host has in flight, or made last
    callers,        \* callers[t]: where the external caller t is in its show or store
    hardware        \* hardware[d]: the function and action modes the hardware of d is in

vars ==
    <<model, device_state, wrappers, heap, dfree, ida, host, ndel, pc, ret, managed,
      devres, unreg_log, oops, uaf, failed, enum_ext, driver, io, caches, dispatch,
      callers, hardware>>

\* the variables of the lifecycle, and those of the Enum Adapter
lifecycle_vars ==
    <<model, device_state, wrappers, heap, dfree, ida, host, ndel, pc, ret, managed,
      devres, unreg_log, oops, uaf, failed>>

enum_vars == <<enum_ext, driver, io>>

dispatch_vars == <<caches, dispatch>>

concurrent_vars == <<callers, hardware>>

\* no caller is in a show or store, the hardware is in its first modes
NobodyCalls ==
    /\ callers = [t \in Callers |-> Outside]
    /\ hardware = InitialCaches(model)

Ids == 0..(MaxIds - 1)

WrapperLabel(h) == <<"device_state", h, 0>>

Live(h) == WrapperLabel(h) \in heap

NoReturn == [counter |-> 0, code |-> "none", at |-> "none"]

Return(d, code, at) == [counter |-> d, code |-> code, at |-> at]

\* an execution is followed up to its first bad access or bad kfree
Running == ~oops /\ ~uaf /\ ~dfree

\* nothing is registered
NothingRegistered ==
    /\ device_state = [d \in Devices |-> NULL_STATE]
    /\ wrappers = [h \in Wrappers |-> EmptyState]
    /\ heap = {}
    /\ dfree = FALSE
    /\ ida = {}
    /\ host = [h \in Wrappers |-> "none"]
    /\ ndel = [h \in Wrappers |-> 0]
    /\ pc = [d \in Devices |-> "idle"]
    /\ ret = NoReturn
    /\ managed = [d \in Devices |-> FALSE]
    /\ devres = <<>>
    /\ unreg_log = <<>>
    /\ oops = FALSE
    /\ uaf = FALSE
    /\ failed = [d \in Devices |-> FALSE]

Init ==
    /\ model \in Models
    /\ NothingRegistered
    /\ enum_ext = NoEnum
    /\ driver = NoDriver
    /\ io = NoIo
    /\ caches = InitialCaches(model)
    /\ dispatch = NoDispatch
    /\ NobodyCalls

(***************************************************************************)
(* counter_register.  It runs in two steps, between which other threads    *)
(* run: lines 1384-1406 (the wrapper, the id, device_initialize) and lines *)
(* 1408-1435 (the build, device_add, the unwinding).                       *)
(***************************************************************************)
\* the record a call threads through the functions it calls, for a call on
\* the wrapper at h as it is
Call(h, failAt) ==
    [heap |-> heap, dfree |-> FALSE, ida |-> ida, n |-> 0, failAt |-> failAt, h |-> h,
     glp |-> wrappers[h].groups_list, gl |-> wrappers[h].gl, ds |-> wrappers[h],
     last |-> NULL, err |-> "OK", at |-> "none", freed |-> <<>>, returned |-> <<>>]

\* and for a call on the wrapper at h as lines 1384-1406 leave it
FreshCall(h, id, failAt) ==
    [heap |-> {WrapperLabel(h)}, dfree |-> FALSE, ida |-> {id}, n |-> 0,
     failAt |-> failAt, h |-> h, glp |-> NULL, gl |-> <<>>,
     ds |-> [EmptyState EXCEPT !.id = id], last |-> NULL, err |-> "OK", at |-> "none",
     freed |-> <<>>, returned |-> <<>>]

ida_simple_remove(b, id) ==
    IF b.err = "OOPS" THEN b
    ELSE [b EXCEPT !.ida = @ \ {id}, !.returned = Append(@, id)]

\* device_add fails when it is the request failAt names
device_add(b) ==
    IF b.n = b.failAt THEN [b EXCEPT !.n = @ + 1, !.err = "EHOST"]
    ELSE [b EXCEPT !.n = @ + 1, !.err = "OK"]

At(b, at) == IF b.err = "OOPS" THEN b ELSE [b EXCEPT !.at = at]

err_free_device_state(b, err) ==
    Ret(kfree(b, WrapperLabel(b.h)), err)

\* err_free_id without ida_simple_remove
err_free_id_keeps_id(b, err) == err_free_device_state(b, err)

err_free_id(b, err) ==
    err_free_device_state(ida_simple_remove(b, b.ds.id), err)

\* err_free_groups_list that does not free the groups list
err_free_groups_list_keeps_list(b, err) == err_free_id(b, err)

err_free_groups_list(b, err) ==
    err_free_id(free_counter_device_groups_list(b, b.ds.groups_list, b.ds.num_groups),
                err)

err_free_groups(b, err) ==
    err_free_groups_list(kfree(b, b.ds.groups), err)

\* lines 1408-1435
\* counter_register from line 1408 on without prepare_counter_device_groups:
\* device_add right after the groups list is built
counter_register_build_without_groups(b, counter) ==
    Let(prepare_counter_device_groups_list(b, counter), LAMBDA b1 :
    IF b1.err # "OK" THEN err_free_id(At(b1, "groups_list"), b1.err) ELSE
    Let(device_add(b1), LAMBDA b3 :
    IF b3.err # "OK" THEN err_free_groups(At(b3, "device_add"), b3.err) ELSE
    Ret(b3, "OK")))

counter_register_build(b, counter) ==
    Let(prepare_counter_device_groups_list(b, counter), LAMBDA b1 :
    IF b1.err # "OK" THEN err_free_id(At(b1, "groups_list"), b1.err) ELSE
    Let(prepare_counter_device_groups(b1), LAMBDA b2 :
    IF b2.err # "OK" THEN err_free_groups_list(At(b2, "groups"), b2.err) ELSE
    Let(device_add(b2), LAMBDA b3 :
    IF b3.err # "OK" THEN err_free_groups(At(b3, "device_add"), b3.err) ELSE
    Ret(b3, "OK"))))

\* the requests of a build in which none fails (device_add is the last)
NumRequests ==
    [m \in ModelNames |-> counter_register_build(FreshCall(1, 0, -1), DeviceModel[m]).n]

\* lines 1408-1435 on each model, wrapper address and id, with each request failing
Builds ==
    [m \in ModelNames |->
        [h \in Wrappers |->
            [id \in Ids |->
                [failAt \in -1..(NumRequests[m] - 1) |->
                    counter_register_build(FreshCall(h, id, failAt), DeviceModel[m])]]]]

\* prepare_counter_device_groups_list alone, in the same way
Lists ==
    [m \in ModelNames |->
        [h \in Wrappers |->
            [id \in Ids |->
                [failAt \in -1..(NumRequests[m] - 1) |->
                    prepare_counter_device_groups_list(FreshCall(h, id, failAt),
                                                       DeviceModel[m])]]]]

\* the requests made before counter_counts_register begins the k-th Count of
\* counter (k from 1; k = num_counts + 1: before it returns)
RequestsBefore(counter, k) ==
    Let(kmalloc(FreshCall(1, 0, -1), "groups_list"), LAMBDA b0 :
    Let(counter_signals_register(
            [b0 EXCEPT !.glp = b0.last,
                       !.gl = [i \in 1..(counter.num_signals + counter.num_counts + 1)
                                  |-> EmptyGroup]],
            counter), LAMBDA b2 :
    counter_counts_register(
        b2, counter.num_signals,
        [counter EXCEPT !.counts = SubSeq(counter.counts, 1, k - 1),
                        !.num_counts = k - 1]).n))

\* the requests of a build that belong to the k-th Count of each model
CountRequests ==
    [m \in ModelNames |->
        [k \in 1..DeviceModel[m].num_counts |->
            {failAt \in 0..(NumRequests[m] - 1) :
                /\ RequestsBefore(DeviceModel[m], k) <= failAt
                /\ failAt < RequestsBefore(DeviceModel[m], k + 1)}]]

\* the wrapper memory after the call: a freed wrapper's content is not kept
After(b) == IF WrapperLabel(b.h) \in b.heap THEN [b.ds EXCEPT !.gl = b.gl] ELSE EmptyState

\* the same, of the wrapper whose drvdata is counter d
Stored(b, d) ==
    IF WrapperLabel(b.h) \in b.heap THEN [After(b) EXCEPT !.drvdata = d] ELSE EmptyState

\* lines 1384-1406, entered from counter_register or from devm_counter_register
RegisterBegin(d, devm) ==
    /\ Running
    /\ pc[d] = "idle"
    /\ unreg_log' = <<>>
    /\ UNCHANGED <<model, dfree, oops, uaf, devres>>
    /\ \/ \* devres_alloc fails
          /\ devm
          /\ ret' = Return(d, "ENOMEM", "devres_alloc")
          /\ UNCHANGED <<device_state, wrappers, heap, ida, host, ndel, pc, managed>>
       \/ \* kzalloc fails
          /\ ret' = Return(d, "ENOMEM", "kzalloc")
          /\ UNCHANGED <<device_state, wrappers, heap, ida, host, ndel, pc, managed>>
       \/ \E h \in Wrappers :
             /\ ~Live(h)
             /\ device_state' = [device_state EXCEPT ![d] = h]
             /\ \/ \* ida_simple_get fails: err_free_device_state
                   /\ \E code \in {"ENOMEM"} \cup (IF ida = Ids THEN {"ENOSPC"} ELSE {}) :
                         ret' = Return(d, code, "ida")
                   /\ wrappers' = [wrappers EXCEPT ![h] = EmptyState]
                   /\ UNCHANGED <<heap, ida, host, ndel, pc, managed>>
                \/ \E id \in Ids \ ida :
                      /\ ida' = ida \cup {id}
                      /\ heap' = heap \cup {WrapperLabel(h)}
                      /\ wrappers' = [wrappers EXCEPT
                                         ![h] = [EmptyState EXCEPT !.id = id, !.drvdata = d]]
                      /\ host' = [host EXCEPT ![h] = "initialized"]
                      /\ ndel' = [ndel EXCEPT ![h] = 0]
                      /\ pc' = [pc EXCEPT ![d] = "build"]
                      /\ managed' = [managed EXCEPT ![d] = devm]
                      /\ ret' = NoReturn

counter_register(d) == RegisterBegin(d, FALSE)

\* devres holds one more resource only while there is room for it
devm_counter_register(d) == Len(devres) < MaxDevres /\ RegisterBegin(d, TRUE)

\* devres_add whatever counter_register returned
devm_counter_register_end_adds(d, err) == Append(devres, d)

\* devm_counter_register after counter_register returned err: devres_add on
\* success, devres_free otherwise
devm_counter_register_end(d, err) == IF err = "OK" THEN Append(devres, d) ELSE devres

\* lines 1408-1435, with request failAt failing; then the end of
\* devm_counter_register when the call came from it
RegisterBuild(d) ==
    /\ Running
    /\ pc[d] = "build"
    /\ unreg_log' = <<>>
    /\ UNCHANGED <<model, device_state, ndel>>
    /\ LET h == device_state[d]
           id == wrappers[h].id
       IN  IF ~Live(h) \/ wrappers[h].drvdata # d
           THEN \* the wrapper was freed under the call (and perhaps allocated again)
                /\ uaf' = TRUE
                /\ \E ub \in {"oops", "none"} : oops' = (ub = "oops")
                /\ pc' = [pc EXCEPT ![d] = "oops"]
                /\ ret' = NoReturn
                /\ UNCHANGED <<wrappers, heap, dfree, ida, host, managed, devres>>
           ELSE \E failAt \in DOMAIN Builds[model[d]][h][id] :
                   LET b == Builds[model[d]][h][id][failAt]
                   IN  /\ heap' = (heap \ {WrapperLabel(h)}) \cup b.heap
                       /\ dfree' = b.dfree
                       /\ ida' = (ida \ {id}) \cup b.ida
                       /\ wrappers' = [wrappers EXCEPT ![h] = Stored(b, d)]
                       /\ uaf' = uaf
                       /\ IF b.err = "OOPS"
                          THEN /\ oops' = TRUE
                               /\ pc' = [pc EXCEPT ![d] = "oops"]
                               /\ ret' = NoReturn
                               /\ UNCHANGED <<host, managed, devres>>
                          ELSE /\ oops' = oops
                               /\ pc' = [pc EXCEPT ![d] = "idle"]
                               /\ ret' = Return(d, b.err, b.at)
                               /\ host' = [host EXCEPT
                                              ![h] = IF b.err = "OK" THEN "added"
                                                     ELSE "none"]
                               /\ managed' = [managed EXCEPT ![d] = FALSE]
                               /\ devres' = IF managed[d]
                                            THEN devm_counter_register_end(d, b.err)
                                            ELSE devres

(***************************************************************************)
(* counter_unregister.  u is the record a caller threads through its       *)
(* calls: the driver core's view (host, ndel), uaf, the calls made, and    *)
(* dead once the calling thread has been killed.  ub is what an access to  *)
(* freed memory does: "oops" (the thread is killed) or "none" (nothing     *)
(* visible).                                                               *)
(***************************************************************************)
Caller == [host |-> host, ndel |-> ndel, uaf |-> uaf, dead |-> FALSE, log |-> <<>>]

Killed(u) == [u EXCEPT !.dead = TRUE, !.log = Append(@, 0)]

\* the driver core's device_del on the struct device in wrapper h
device_del(u, h) ==
    IF u.host[h] \in {"added", "deleted"}
    THEN [u EXCEPT !.host[h] = "deleted",
                   !.ndel[h] = IF u.ndel[h] >= 2 THEN 2 ELSE u.ndel[h] + 1]
    ELSE Killed(u)

counter_unregister(u, d, ub) ==
    LET p == device_state[d]
    IN  IF p = NULL_STATE THEN Killed(u)
        ELSE IF ~Live(p)
        THEN IF ub = "oops" THEN Killed([u EXCEPT !.uaf = TRUE])
             ELSE [u EXCEPT !.uaf = TRUE]
        ELSE IF wrappers[p].drvdata # d THEN device_del([u EXCEPT !.uaf = TRUE], p)
        ELSE device_del(u, p)

Apply(u) ==
    /\ host' = u.host
    /\ ndel' = u.ndel
    /\ uaf' = u.uaf
    /\ oops' = (oops \/ u.dead)

\* a driver calls counter_unregister(counter)
Unregister(d) ==
    /\ Running
    /\ pc[d] = "idle"
    /\ \E ub \in {"oops", "none"} : Apply(counter_unregister(Caller, d, ub))
    /\ unreg_log' = <<>>
    /\ ret' = NoReturn
    /\ UNCHANGED <<model, device_state, wrappers, heap, dfree, ida, pc, managed, devres>>

(***************************************************************************)
(* The deferred release: the driver core calls dev.type->release once,     *)
(* after device_del, when its last reference to the device is dropped.     *)
(***************************************************************************)
\* counter_device_release without the kfree of the wrapper
counter_device_release_keeps_wrapper(b) ==
    ida_simple_remove(
        free_counter_device_groups_list(
            kfree(b, b.ds.groups), b.ds.groups_list, b.ds.num_groups),
        b.ds.id)

counter_device_release(b) ==
    kfree(ida_simple_remove(
              free_counter_device_groups_list(
                  kfree(b, b.ds.groups), b.ds.groups_list, b.ds.num_groups),
              b.ds.id),
          WrapperLabel(b.h))

FinalRelease(h) ==
    /\ Running
    /\ host[h] = "deleted"
    /\ host' = [host EXCEPT ![h] = "none"]
    /\ ndel' = [ndel EXCEPT ![h] = 0]
    /\ IF \/ ~Live(h)
          \/ ~Live(device_state[wrappers[h].drvdata])
          \/ wrappers[device_state[wrappers[h].drvdata]].drvdata # wrappers[h].drvdata
       THEN \* dev or counter->device_state points into memory that was freed
            /\ uaf' = TRUE
            /\ \E ub \in {"oops", "none"} : oops' = (oops \/ ub = "oops")
            /\ UNCHANGED <<wrappers, heap, dfree, ida>>
       ELSE Let(counter_device_release(Call(device_state[wrappers[h].drvdata], -1)),
                LAMBDA b :
                /\ heap' = b.heap
                /\ dfree' = b.dfree
                /\ ida' = b.ida
                /\ wrappers' = [wrappers EXCEPT ![b.h] = After(b)]
                /\ UNCHANGED <<oops, uaf>>)
    /\ unreg_log' = <<>>
    /\ ret' = NoReturn
    /\ UNCHANGED <<model, device_state, pc, managed, devres>>

(***************************************************************************)
(* The resource-managed variants.  devres holds, oldest first, the         *)
(* counter each devm_counter_unreg resource of the owning device names.    *)
(***************************************************************************)
\* devm_counter_unreg
devm_counter_unreg(u, d, ub) ==
    IF u.dead THEN u ELSE counter_unregister([u EXCEPT !.log = Append(@, d)], d, ub)

\* the resource devres_release finds: the last one added that matches
LastMatch(d) ==
    IF \E i \in 1..Len(devres) : devres[i] = d
    THEN CHOOSE i \in 1..Len(devres) :
             devres[i] = d /\ \A j \in (i + 1)..Len(devres) : devres[j] # d
    ELSE 0

Remove(seq, i) == [j \in 1..(Len(seq) - 1) |-> IF j < i THEN seq[j] ELSE seq[j + 1]]

devm_counter_unregister(d) ==
    /\ Running
    /\ pc[d] = "idle"
    /\ LET i == LastMatch(d)
       IN  IF i = 0
           THEN \* rc = -ENOENT: WARN_ON(rc)
                UNCHANGED <<host, ndel, uaf, oops, devres, unreg_log>>
           ELSE /\ devres' = Remove(devres, i)
                /\ \E ub \in {"oops", "none"} :
                      LET u == devm_counter_unreg(Caller, d, ub)
                      IN  Apply(u) /\ unreg_log' = u.log
    /\ ret' = NoReturn
    /\ UNCHANGED <<model, device_state, wrappers, heap, dfree, ida, pc, managed>>

\* devres_release_all: the resources are released newest first
RECURSIVE ReleaseAll(_, _, _)
ReleaseAll(u, i, ub) ==
    IF i = 0 THEN u ELSE ReleaseAll(devm_counter_unreg(u, devres[i], ub), i - 1, ub)

\* the owning struct device is unbound from its driver
ScopeTeardown ==
    /\ Running
    /\ devres # <<>>
    /\ \A d \in Devices : pc[d] = "idle"
    /\ devres' = <<>>
    /\ \E ub \in {"oops", "none"} :
          LET u == ReleaseAll(Caller, Len(devres), ub)
          IN  Apply(u) /\ unreg_log' = u.log
    /\ ret' = NoReturn
    /\ UNCHANGED <<model, device_state, wrappers, heap, dfree, ida, pc, managed>>

\* the counter_device structures in use
Drivers == {d \in Devices : model[d] # "none"}

\* nothing but the lifecycle moves
Alone == UNCHANGED <<failed, enum_vars, dispatch_vars, concurrent_vars>>

Next ==
    \/ \E d \in Drivers : counter_register(d) /\ Alone
    \/ \E d \in Drivers : devm_counter_register(d) /\ Alone
    \/ \E d \in Drivers : RegisterBuild(d) /\ Alone
    \/ \E d \in Drivers : Unregister(d) /\ Alone
    \/ \E d \in Drivers : devm_counter_unregister(d) /\ Alone
    \/ \E h \in Wrappers : FinalRelease(h) /\ Alone
    \/ ScopeTeardown /\ Alone

Spec == Init /\ [][Next]_vars

(***************************************************************************)
(* The Enum Adapter called on an enum extension: a read of the extension's *)
(* attribute, a write to it, a read of its _available attribute.  The host *)
(* hands a write the text and its length.                                  *)
(***************************************************************************)
EnumInit ==
    /\ model = [d \in Devices |-> "none"]
    /\ NothingRegistered
    /\ enum_ext \in EnumExts
    /\ driver \in DriverStates
    /\ io = NoIo
    /\ caches = InitialCaches(model)
    /\ dispatch = NoDispatch
    /\ NobodyCalls

\* the call r of the adapter was made
Called(op, written, r) ==
    /\ io' = [op |-> op, written |-> written, err |-> r.err, val |-> r.val,
              buf |-> r.buf, calls |-> r.calls,
              prev |-> [op |-> io.op, written |-> io.written, err |-> io.err]]
    /\ driver' = r.driver
    /\ UNCHANGED enum_ext

EnumRead ==
    Called("read", <<>>,
           CASE enum_ext.kind = "signal" -> counter_signal_enum_read(enum_ext, driver)
             [] enum_ext.kind = "count" -> counter_count_enum_read(enum_ext, driver)
             [] enum_ext.kind = "device" -> counter_device_enum_read(enum_ext, driver))

EnumWrite(buf) ==
    Called("write", buf,
           CASE enum_ext.kind = "signal" ->
                    counter_signal_enum_write(enum_ext, driver, buf, Len(buf))
             [] enum_ext.kind = "count" ->
                    counter_count_enum_write(enum_ext, driver, buf, Len(buf))
             [] enum_ext.kind = "device" ->
                    counter_device_enum_write(enum_ext, driver, buf, Len(buf)))

EnumAvailableRead ==
    Called("available_read", <<>>,
           CASE enum_ext.kind = "signal" ->
                    counter_signal_enum_available_read(enum_ext, driver)
             [] enum_ext.kind = "count" ->
                    counter_count_enum_available_read(enum_ext, driver)
             [] enum_ext.kind = "device" ->
                    counter_device_enum_available_read(enum_ext, driver))

EnumNext ==
    /\ UNCHANGED lifecycle_vars
    /\ UNCHANGED dispatch_vars
    /\ UNCHANGED concurrent_vars
    /\ \/ EnumRead
       \/ \E buf \in Written : EnumWrite(buf)
       \/ EnumAvailableRead

EnumSpec == EnumInit /\ [][EnumNext]_vars

(***************************************************************************)
(* What is observed of a registration.                                     *)
(***************************************************************************)
\* the allocations made for the wrapper at h, the wrapper included
Owned(h) == {l \in heap : l[2] = h}

\* the Entity Model of counter_device d
ModelOf(d) == DeviceModel[model[d]]

\* the lifecycle state of counter_device d, read from what the code holds
State(d) ==
    IF pc[d] # "idle" THEN "Building"
    ELSE IF device_state[d] = NULL_STATE THEN "Unregistered"
    ELSE IF ~Live(device_state[d]) \/ wrappers[device_state[d]].drvdata # d
    THEN "Released"
    ELSE IF host[device_state[d]] = "added" THEN "Published"
    ELSE IF host[device_state[d]] = "deleted" THEN "Unregistering"
    ELSE "Released"

\* the lifecycle edges, and Unregistered -> Building -> Released in one step
Edges ==
    {<<"Unregistered", "Building">>, <<"Building", "Published">>,
     <<"Building", "Released">>, <<"Published", "Unregistering">>,
     <<"Unregistering", "Released">>, <<"Unregistered", "Released">>}

\* the registration in the wrapper at h is built and published
Built(h) == Live(h) /\ host[h] = "added"

\* the Entity Model it was built from
CounterOf(h) == ModelOf(wrappers[h].drvdata)

\* the attributes of its group gi, in the order of their creation (attr_list
\* has the last one first)
Attrs(h, gi) ==
    [j \in 1..Len(wrappers[h].gl[gi].attr_list) |->
        wrappers[h].gl[gi].attr_list[Len(wrappers[h].gl[gi].attr_list) + 1 - j]]

\* an attribute can be read (mode 0444, show set), written (0200, store set)
Readable(a) == a.show # "NULL"

Writable(a) == a.store # "NULL"

Names(attrs) == [j \in 1..Len(attrs) |-> attrs[j].name]

\* the counter_unregister calls in the log, without the mark of a killed thread
Calls(log) == SelectSeq(log, LAMBDA x : x # 0)

Reverse(seq) == [i \in 1..Len(seq) |-> seq[Len(seq) + 1 - i]]

(***************************************************************************)
(* Dispatch.  While the driver core holds a device as added, the host      *)
(* (sysfs) calls the show and store functions of its attributes on behalf  *)
(* of external callers.  A call takes two steps, its entry and its return, *)
(* between which the lifecycle goes on; one call is followed at a time,    *)
(* and what it returned is kept until the caller has taken it.             *)
(***************************************************************************)
\* the systems of the dispatch: one driver with the Device of one Signal and
\* one Count
DispatchModels == {m \in Models : m[1] = "simple" /\ m[2] = "none"}

DispatchInit ==
    /\ model \in DispatchModels
    /\ NothingRegistered
    /\ enum_ext = NoEnum
    /\ driver = NoDriver
    /\ io = NoIo
    /\ caches = InitialCaches(model)
    /\ dispatch = NoDispatch
    /\ NobodyCalls

\* a show or store is in flight on the device in wrapper h
InFlight(h) == dispatch.phase = "running" /\ dispatch.h = h

\* the memory a show or store on attribute j of group gi of wrapper h uses is
\* allocated: the wrapper, the counter_device_attr, its component
Allocated(h, gi, j) ==
    /\ Live(h)
    /\ gi \in 1..wrappers[h].num_groups
    /\ j \in 1..Len(wrappers[h].gl[gi].attr_list)
    /\ Attrs(h, gi)[j].p \in heap
    /\ Attrs(h, gi)[j].component.p \in heap

\* the host enters the show (op = "show") or store of an attribute of the
\* device it holds in wrapper h; of a device whose memory was freed it still
\* holds the pointers (gi = j = 0 then)
DispatchBegin(h, op) ==
    /\ Running
    /\ dispatch.phase = "idle"
    /\ host[h] = "added"
    /\ IF Live(h)
       THEN \E gi \in 1..wrappers[h].num_groups :
                \E j \in 1..Len(wrappers[h].gl[gi].attr_list) :
                    dispatch' = [NoDispatch EXCEPT !.phase = "running", !.h = h,
                                                   !.gi = gi, !.j = j, !.op = op]
       ELSE dispatch' = [NoDispatch EXCEPT !.phase = "running", !.h = h, !.op = op]
    /\ UNCHANGED <<caches, lifecycle_vars, enum_vars, concurrent_vars>>

\* the call in flight returned r
Dispatched(written, acc, r) ==
    dispatch' = [dispatch EXCEPT !.phase = "done", !.written = written, !.acc = acc,
                                 !.err = r.err, !.val = r.val, !.buf = r.buf,
                                 !.past = r.past, !.calls = r.calls]

\* the show or store in flight runs and returns
DispatchEnd ==
    /\ Running
    /\ dispatch.phase = "running"
    /\ IF ~Allocated(dispatch.h, dispatch.gi, dispatch.j)
       THEN \* dev, attr or devattr->component points into freed memory
            /\ uaf' = TRUE
            /\ \E kill \in BOOLEAN : oops' = kill
            /\ Dispatched("", NoAccessor, Thunk("UB", 0, "", caches, FALSE))
            /\ UNCHANGED caches
       ELSE Let(wrappers[dispatch.h].drvdata, LAMBDA d :
            Let(Attrs(dispatch.h, dispatch.gi)[dispatch.j], LAMBDA a :
            /\ IF dispatch.op = "show"
               THEN IF a.show = "NULL"
                    THEN \* sysfs answers, no function is called
                         /\ Dispatched("", NoAccessor,
                                       Thunk("Unsupported", 0, "", caches[d], FALSE))
                         /\ UNCHANGED <<caches, oops>>
                    ELSE \E acc \in Accessors : \E ub \in PastTheEnd :
                             Let(show(ModelOf(d), caches[d], a, acc, ub), LAMBDA r :
                             /\ Dispatched("", acc, r)
                             /\ caches' = [caches EXCEPT ![d] = r.caches]
                             /\ oops' = (r.err = "OOPS"))
               ELSE IF a.store = "NULL"
                    THEN /\ \E buf \in Inputs :
                               Dispatched(buf, NoAccessor,
                                          Thunk("Unsupported", 0, buf, caches[d], FALSE))
                         /\ UNCHANGED <<caches, oops>>
                    ELSE \E buf \in Inputs : \E acc \in Accessors :
                             Let(store(ModelOf(d), caches[d], a, buf, Len(buf), acc),
                                 LAMBDA r :
                             /\ Dispatched(buf, acc, r)
                             /\ caches' = [caches EXCEPT ![d] = r.caches]
                             /\ UNCHANGED oops)
            /\ UNCHANGED uaf))
    /\ UNCHANGED <<model, device_state, wrappers, heap, dfree, ida, host, ndel, pc, ret,
                   managed, devres, unreg_log, failed, enum_vars, concurrent_vars>>

\* kernfs_drain: the removal of the attributes of a device (device_del)
\* waits for the show and store in flight on it
kernfs_drain == \A h \in Wrappers : host[h] = "added" /\ host'[h] # "added" => ~InFlight(h)

\* the external caller takes what its call returned
DispatchReturn ==
    /\ dispatch.phase = "done"
    /\ dispatch' = NoDispatch
    /\ UNCHANGED <<caches, lifecycle_vars, enum_vars, concurrent_vars>>

\* the lifecycle goes on once the caller has taken what the last call returned
Taken == dispatch.phase # "done"

\* in a step of the lifecycle the call in flight stays so
Drained == kernfs_drain /\ UNCHANGED <<failed, dispatch_vars, enum_vars, concurrent_vars>>

DispatchNext ==
    \/ \E d \in Drivers : Taken /\ counter_register(d) /\ Drained
    \/ \E d \in Drivers : Taken /\ devm_counter_register(d) /\ Drained
    \/ \E d \in Drivers : Taken /\ RegisterBuild(d) /\ Drained
    \/ \E d \in Drivers : Taken /\ Unregister(d) /\ Drained
    \/ \E d \in Drivers : Taken /\ devm_counter_unregister(d) /\ Drained
    \/ \E h \in Wrappers : Taken /\ FinalRelease(h) /\ Drained
    \/ Taken /\ ScopeTeardown /\ Drained
    \/ \E h \in Wrappers : \E op \in {"show", "store"} : DispatchBegin(h, op)
    \/ DispatchEnd
    \/ DispatchReturn

DispatchSpec == DispatchInit /\ [][DispatchNext]_vars

(***************************************************************************)
(* Registration again after a failure: the lifecycle of one driver, with   *)
(* the record of which counter_device had a counter_register fail.         *)
(***************************************************************************)
RetryModels == {m \in Models : m[1] \in {"simple", "rich"} /\ m[2] = "none"}

RetryInit ==
    /\ model \in RetryModels
    /\ NothingRegistered
    /\ enum_ext = NoEnum
    /\ driver = NoDriver
    /\ io = NoIo
    /\ caches = InitialCaches(model)
    /\ dispatch = NoDispatch
    /\ NobodyCalls

\* a (devm_)counter_register that returns an error in the step is recorded
Recorded ==
    /\ failed' = [d \in Devices |->
                     failed[d] \/ (ret'.counter = d /\ ret'.code \notin {"OK", "none"})]
    /\ UNCHANGED <<enum_vars, dispatch_vars, concurrent_vars>>

RetryNext ==
    \/ \E d \in Drivers : counter_register(d) /\ Recorded
    \/ \E d \in Drivers : devm_counter_register(d) /\ Recorded
    \/ \E d \in Drivers : RegisterBuild(d) /\ Recorded
    \/ \E d \in Drivers : Unregister(d) /\ Recorded
    \/ \E d \in Drivers : devm_counter_unregister(d) /\ Recorded
    \/ \E h \in Wrappers : FinalRelease(h) /\ Recorded
    \/ ScopeTeardown /\ Recorded

RetrySpec == RetryInit /\ [][RetryNext]_vars

(***************************************************************************)
(* Callers at the same time.  The host runs the shows and stores of        *)
(* several external callers at once and the thunks take no lock.  A show   *)
(* or store of a function or action attribute is three steps here: its     *)
(* entry, the callback of the driver (atomic: the driver serializes its    *)
(* accesses to the hardware), and the rest of the thunk, which writes the  *)
(* cache and returns.  The driver reports the mode the hardware is in and  *)
(* puts the hardware in the mode it is asked for.  The lifecycle moves     *)
(* while no call is in flight; the driver registers with counter_register  *)
(* and unregisters with counter_unregister.                                *)
(***************************************************************************)
ConcurrentModels == {m \in Models : m[1] = "simple" /\ m[2] = "none"}

ConcurrentInit ==
    /\ model \in ConcurrentModels
    /\ NothingRegistered
    /\ enum_ext = NoEnum
    /\ driver = NoDriver
    /\ io = NoIo
    /\ caches = InitialCaches(model)
    /\ dispatch = NoDispatch
    /\ NobodyCalls

\* the attribute is the function attribute of a Count or the action attribute
\* of a Synapse
Cached(a) == a.show \in {"counter_action_show", "counter_function_show"}

\* the mode of the Count or Synapse of attribute a in k, and k with that mode i
Mode(k, a) ==
    IF a.show = "counter_action_show"
    THEN k.action[a.component.count][a.component.synapse]
    ELSE k.function[a.component.count]

WithMode(k, a, i) ==
    IF a.show = "counter_action_show"
    THEN [k EXCEPT !.action[a.component.count][a.component.synapse] = i]
    ELSE [k EXCEPT !.function[a.component.count] = i]

\* the index counter_action_store or counter_function_store finds for buf
\* (num_actions or num_functions: none)
Requested(counter, a, buf) ==
    IF a.show = "counter_action_show"
    THEN ActionLoop(counter.counts[a.component.count].synapses[a.component.synapse],
                    buf, 0)
    ELSE FunctionLoop(counter.counts[a.component.count], buf, 0)

NumModes(counter, a) ==
    IF a.show = "counter_action_show"
    THEN counter.counts[a.component.count].synapses[a.component.synapse].num_actions
    ELSE counter.counts[a.component.count].num_functions

\* no caller is in a show or store
Quiet == \A t \in Callers : callers[t].pc = "outside"

\* the host enters the show or store of a function or action attribute for
\* caller t
CallerEnter(t, op) ==
    /\ Running
    /\ callers[t].pc = "outside"
    /\ \E h \in Wrappers :
          /\ Built(h)
          /\ \E gi \in 1..wrappers[h].num_groups :
                \E j \in 1..Len(wrappers[h].gl[gi].attr_list) :
                   /\ Cached(Attrs(h, gi)[j])
                   /\ \E buf \in IF op = "show" THEN {""} ELSE Inputs :
                         callers' = [callers EXCEPT ![t] =
                                        [pc |-> "entered", h |-> h, gi |-> gi, j |-> j,
                                         op |-> op, buf |-> buf, acc |-> NoAccessor]]
    /\ UNCHANGED <<hardware, lifecycle_vars, enum_vars, dispatch_vars>>

\* the thunk of caller t calls the driver: action_get or function_get reports
\* the mode of the hardware, action_set or function_set puts the hardware in
\* the requested mode, or the callback fails; a store of a string that names
\* no available mode calls nothing
CallerAccessor(t) ==
    /\ callers[t].pc = "entered"
    /\ Let(wrappers[callers[t].h].drvdata, LAMBDA d :
       Let(Attrs(callers[t].h, callers[t].gi)[callers[t].j], LAMBDA a :
       IF callers[t].op = "show"
       THEN /\ \E acc \in {Accessor("EIO", 0, ""),
                           Accessor("OK", Mode(hardware[d], a), "")} :
                  callers' = [callers EXCEPT ![t].pc = "called", ![t].acc = acc]
            /\ UNCHANGED hardware
       ELSE Let(Requested(ModelOf(d), a, callers[t].buf), LAMBDA index :
            IF index >= NumModes(ModelOf(d), a)
            THEN /\ callers' = [callers EXCEPT ![t].pc = "called"]
                 /\ UNCHANGED hardware
            ELSE \E err \in {"OK", "EIO"} :
                    /\ callers' = [callers EXCEPT ![t].pc = "called",
                                                  ![t].acc = Accessor(err, index, "")]
                    /\ hardware' = IF err = "OK"
                                   THEN [hardware EXCEPT ![d] = WithMode(@, a, index)]
                                   ELSE hardware)))
    /\ UNCHANGED <<lifecycle_vars, enum_vars, dispatch_vars>>

\* the thunk of caller t goes on from the return of the callback to its own
\* return
CallerReturn(t) ==
    /\ callers[t].pc = "called"
    /\ Let(wrappers[callers[t].h].drvdata, LAMBDA d :
       Let(Attrs(callers[t].h, callers[t].gi)[callers[t].j], LAMBDA a :
       Let(IF callers[t].op = "show"
           THEN show(ModelOf(d), caches[d], a, callers[t].acc,
                     [kill |-> FALSE, read |-> SYNAPSE_ACTION_NONE])
           ELSE store(ModelOf(d), caches[d], a, callers[t].buf, Len(callers[t].buf),
                      callers[t].acc), LAMBDA r :
       caches' = [caches EXCEPT ![d] = r.caches])))
    /\ callers' = [callers EXCEPT ![t] = Outside]
    /\ UNCHANGED <<hardware, dispatch, lifecycle_vars, enum_vars>>

\* in a step of the lifecycle no call is in flight
Between == Quiet /\ UNCHANGED <<failed, dispatch_vars, enum_vars, concurrent_vars>>

ConcurrentNext ==
    \/ \E d \in Drivers : Between /\ counter_register(d)
    \/ \E d \in Drivers : Between /\ RegisterBuild(d)
    \/ \E d \in Drivers : Between /\ Unregister(d)
    \/ \E h \in Wrappers : Between /\ FinalRelease(h)
    \/ \E t \in Callers : \E op \in {"show", "store"} : CallerEnter(t, op)
    \/ \E t \in Callers : CallerAccessor(t)
    \/ \E t \in Callers : CallerReturn(t)

ConcurrentSpec == ConcurrentInit /\ [][ConcurrentNext]_vars

(***************************************************************************)
(* The claims.                                                             *)
(***************************************************************************)
\* C1: when counter_unregister has unpublished a Published device, the id of
\* that device is no longer held by counter_ida, which register had changed by
\* that id only: the allocator is as it was before the register call.
C1_UnregisterReturnsId ==
    [][\A h \in Wrappers :
          (host[h] = "added" /\ host'[h] = "deleted") => wrappers[h].id \notin ida']_vars

\* C2: when the release callback of a registration fires, every allocation
\* register made for that registration is freed (groups array, groups,
\* endpoints, dispatch contexts, wrapper) and its id is back in counter_ida.
C2_ReleaseFreesItsRegistration ==
    [][\A h \in Wrappers :
          (host[h] = "deleted" /\ host'[h] = "none" /\ Live(h))
              => ({l \in heap' : l[2] = h} = {} /\ wrappers[h].id \notin ida')]_vars

\* C3: a (devm_)counter_register that returns an error has released, at that
\* step, every allocation the call made: nothing of its wrapper is left in the
\* heap, its id is out of counter_ida, nothing else was freed or taken, and
\* the host holds nothing of it.
C3_FailedRegisterRollsBack ==
    [][\A d \in Devices :
          (ret'.counter = d /\ ret'.code # "OK")
              => IF pc[d] = "build"
                 THEN /\ {l \in heap' : l[2] = device_state[d]} = {}
                      /\ heap' = heap \ {WrapperLabel(device_state[d])}
                      /\ ida' = ida \ {wrappers[device_state[d]].id}
                      /\ host'[device_state[d]] = "none"
                      /\ ~dfree'
                 ELSE /\ heap' = heap
                      /\ ida' = ida
                      /\ host' = host]_vars

\* a register call has failed at device_add, after the whole build
C3_Witness ==
    /\ ret.code = "EHOST"
    /\ ret.at = "device_add"
    /\ model[ret.counter] = "rich"
    /\ ~Live(device_state[ret.counter])

\* C4: whenever a register call is about to build, for every allocation
\* request of the build that may fail, prepare_counter_device_groups_list
\* (when it returns) either stores num_signals + num_counts + 1 groups in the
\* device state, or returns an error with every allocation it made released
\* and the device state as it found it.
C4_BuilderAllOrNothing ==
    \A d \in Devices :
        (pc[d] = "build" /\ Live(device_state[d]))
            => \A failAt \in DOMAIN Lists[model[d]][device_state[d]][wrappers[device_state[d]].id] :
                  Let(Lists[model[d]][device_state[d]][wrappers[device_state[d]].id][failAt],
                      LAMBDA b :
                      \/ b.err = "OOPS"
                      \/ /\ b.err = "OK"
                         /\ b.ds.groups_list # NULL
                         /\ b.ds.groups_list \in b.heap
                         /\ b.ds.num_groups = ModelOf(d).num_signals + ModelOf(d).num_counts + 1
                         /\ Len(b.gl) = b.ds.num_groups
                         /\ \A i \in 1..Len(b.gl) : b.gl[i].num_attr = Len(b.gl[i].attr_list)
                      \/ /\ b.err = "ENOMEM"
                         /\ b.heap = {WrapperLabel(device_state[d])}
                         /\ b.ds = [EmptyState EXCEPT !.id = wrappers[device_state[d]].id]
                         /\ ~b.dfree)

\* a register call has returned the error of an allocation that failed
\* inside prepare_counter_device_groups_list
C4_Witness ==
    /\ ret.code = "ENOMEM"
    /\ ret.at = "groups_list"
    /\ model[ret.counter] = "rich"

\* C5: a Device with zero Signals or zero Counts is rejected: no
\* counter_register on it returns success, and no wrapper of it is live once
\* the call is over, so it holds no id and nothing of it is published.
C5_NoSignalsOrCountsRejected ==
    \A d \in Devices :
        (model[d] # "none" /\ (ModelOf(d).num_signals = 0 \/ ModelOf(d).num_counts = 0))
            => /\ ret.counter = d => ret.code # "OK"
               /\ pc[d] = "idle" =>
                      \A h \in Wrappers :
                          (Live(h) /\ wrappers[h].drvdata = d)
                              => (host[h] # "added" /\ wrappers[h].id \notin ida)

\* C6: a Device with a Count that has no function or no Synapse is rejected:
\* no counter_register on it returns success and nothing of it is published.
C6_EmptyCountRejected ==
    \A d \in Devices :
        (/\ model[d] # "none"
         /\ \E i \in 1..ModelOf(d).num_counts :
               \/ ModelOf(d).counts[i].num_functions = 0
               \/ ModelOf(d).counts[i].num_synapses = 0)
            => /\ ret.counter = d => ret.code # "OK"
               /\ \A h \in Wrappers :
                      (Live(h) /\ wrappers[h].drvdata = d) => host[h] # "added"

\* C7: a Device with a Synapse whose Signal is null or whose actions list is
\* empty is rejected: the register call is not killed by a dereference of the
\* missing Signal, it never returns success, and nothing of it is published.
C7_BadSynapseRejected ==
    \A d \in Devices :
        (/\ model[d] # "none"
         /\ \E i \in 1..ModelOf(d).num_counts :
               \E j \in 1..ModelOf(d).counts[i].num_synapses :
                  \/ ModelOf(d).counts[i].synapses[j].signal.null
                  \/ ModelOf(d).counts[i].synapses[j].num_actions = 0)
            => /\ pc[d] # "oops"
               /\ ret.counter = d => ret.code # "OK"
               /\ \A h \in Wrappers :
                      (Live(h) /\ wrappers[h].drvdata = d) => host[h] # "added"

\* C8: the lifecycle state of a device changes only along the edges
\* Unregistered -> Building -> Published -> Unregistering -> Released and
\* Building -> Released, and a device in Released stays there.
C8_LifecycleEdges ==
    [][\A d \in Devices :
          State(d)' # State(d) => <<State(d), State(d)'>> \in Edges]_vars

\* C9: the only step that attaches a devm_counter_unreg resource is a
\* devm_counter_register that returns success, and it attaches one for its
\* device; a register that fails attaches none and makes no call; a step
\* that takes resources away (devm_counter_unregister, the teardown of the
\* scope) and is not killed calls counter_unregister exactly once for each
\* resource it takes away; no other step makes a call through devres.
C9_ManagedUnregisterOnce ==
    [][/\ Len(devres') > Len(devres)
           => (ret'.code = "OK" /\ devres' = Append(devres, ret'.counter))
       /\ ret'.code \notin {"OK", "none"} => (devres' = devres /\ unreg_log' = <<>>)
       /\ Len(devres') >= Len(devres) => unreg_log' = <<>>
       /\ (Len(devres') < Len(devres) /\ unreg_log' = Calls(unreg_log'))
           => \/ devres' = <<>> /\ unreg_log' = Reverse(devres)
              \/ \E i \in 1..Len(devres) :
                    devres' = Remove(devres, i) /\ unreg_log' = <<devres[i]>>]_vars

\* the scope was torn down with a resource in it, and the one call was made
C9_Witness ==
    /\ devres = <<>>
    /\ unreg_log # <<>>
    /\ unreg_log = Calls(unreg_log)
    /\ \E h \in Wrappers : host[h] = "deleted" /\ ndel[h] = 1

\* C10: whatever mix of counter_unregister, devm_counter_unregister and scope
\* teardown runs on a device, device_del is requested at most once on it.
C10_DeviceDelOnce == \A h \in Wrappers : ndel[h] <= 1

\* C11: in every interleaving of the register, unregister and release steps
\* of the devices, the registrations that hold an id (their wrapper is
\* allocated) hold ids that counter_ida has handed out and that differ from
\* one registration to the other; and a step hands out only an id that no
\* registration holds at that moment.
C11_IdsUnique ==
    /\ [](\A h1 \in Wrappers :
             Live(h1) =>
                 /\ wrappers[h1].id \in ida
                 /\ \A h2 \in Wrappers \ {h1} :
                       Live(h2) => wrappers[h2].id # wrappers[h1].id)
    /\ [][\A id \in ida' \ ida :
             \A h \in Wrappers : Live(h) => wrappers[h].id # id]_vars

\* the registrations of two devices are in progress at once, each with its id
C11_Witness ==
    /\ pc[1] = "build" /\ pc[2] = "build"
    /\ Live(device_state[1]) /\ Live(device_state[2])
    /\ device_state[1] # device_state[2]
    /\ wrappers[device_state[1]].id # wrappers[device_state[2]].id

\* the text is one of the items, its trailing whitespace aside
Present(str) == \E i \in 1..enum_ext.num_items : enum_ext.items[i] = Trim(str)

\* C12: a read through the Enum Adapter (counter_signal_enum_read,
\* counter_count_enum_read, counter_device_enum_read) returns -EINVAL
\* (Unsupported) without a call when e->get is not set; returns what get
\* returned when get fails; returns -EINVAL (Internal) when get succeeds with
\* an index >= num_items; and otherwise fills the buffer with exactly
\* items[index] followed by a newline and returns its length.
C12_EnumRead ==
    io.op = "read" =>
        IF ~enum_ext.get THEN io.err = "EINVAL" /\ io.calls = <<>> /\ io.buf = <<>>
        ELSE /\ io.calls = <<[fn |-> "get", ctx |-> enum_ext.kind]>>
             /\ IF driver.get_err # "OK" THEN io.err = driver.get_err /\ io.buf = <<>>
                ELSE IF driver.index >= Len(enum_ext.items)
                THEN io.err = "EINVAL" /\ io.buf = <<>>
                ELSE /\ io.err = "OK"
                     /\ io.buf = enum_ext.items[driver.index + 1] \o <<"\n">>
                     /\ io.val = Len(io.buf)

\* a read produced the second item of a table and its newline
C12_Witness ==
    /\ io.op = "read"
    /\ io.err = "OK"
    /\ driver.index = 1
    /\ enum_ext.items = << <<"a">>, <<"a", "b">> >>
    /\ io.buf = <<"a", "b", "\n">>

\* C13 as stated: a write of a text that is none of the items fails with
\* NotFound and calls set not at all, whatever the table and the text.
C13_Original ==
    (io.op = "write" /\ ~Present(io.written))
        => (io.err = "NotFound" /\ io.calls = <<>>)

\* C13: a write of a text that is none of the items never calls set, for
\* every table (the empty one included) and every text; it fails with
\* NotFound when e->set is set, and with -EINVAL (Unsupported) when it is not.
C13_AbsentStringRejected ==
    (io.op = "write" /\ ~Present(io.written))
        => /\ io.calls = <<>>
           /\ io.err = IF enum_ext.set THEN "NotFound" ELSE "EINVAL"

\* a write to an extension with an empty table failed with NotFound
C13_Witness ==
    /\ io.op = "write"
    /\ io.written = <<"c">>
    /\ enum_ext.items = <<>>
    /\ enum_ext.set
    /\ io.err = "NotFound"

\* C14: a write of a text that is one of the items fails with -EINVAL
\* (Unsupported) when e->set is not set; otherwise it calls set once, with the
\* index of the first item that is the text, returns what set returned when
\* set fails, and otherwise returns the length of the text it was handed.
C14_MatchedWrite ==
    (io.op = "write" /\ Present(io.written))
        => IF ~enum_ext.set THEN io.err = "EINVAL" /\ io.calls = <<>>
           ELSE /\ Len(io.calls) = 1
                /\ io.calls[1].fn = "set"
                /\ io.calls[1].ctx = enum_ext.kind
                /\ enum_ext.items[io.calls[1].index + 1] = Trim(io.written)
                /\ \A j \in 1..io.calls[1].index : enum_ext.items[j] # Trim(io.written)
                /\ IF driver.set_err # "OK" THEN io.err = driver.set_err
                   ELSE /\ io.err = "OK"
                        /\ io.val = Len(io.written)
                        /\ driver.index = io.calls[1].index

\* the text "ab\n" was written and matched the second item: 3 characters
C14_Witness ==
    /\ io.op = "write"
    /\ io.written = <<"a", "b", "\n">>
    /\ enum_ext.items = << <<"b">>, <<"a", "b">> >>
    /\ io.err = "OK"
    /\ io.val = 3
    /\ io.calls = <<[fn |-> "set", ctx |-> enum_ext.kind, index |-> 1]>>

\* C15: with callbacks that store and return the index, a write of items[i]
\* succeeds and the read that follows it produces items[i] followed by a
\* newline, for every table, with duplicate items or not, and every i.
C15_RoundTrip ==
    (/\ enum_ext.get /\ enum_ext.set
     /\ driver.get_err = "OK" /\ driver.set_err = "OK"
     /\ io.op = "read"
     /\ io.prev.op = "write"
     /\ \E i \in 1..enum_ext.num_items : enum_ext.items[i] = io.prev.written)
        => /\ io.prev.err = "OK"
           /\ io.err = "OK"
           /\ io.buf = io.prev.written \o <<"\n">>
           /\ io.val = Len(io.prev.written) + 1

\* the second of two equal items was written and read back
C15_Witness ==
    /\ enum_ext.get /\ enum_ext.set
    /\ enum_ext.items = << <<"a", "b">>, <<"a", "b">> >>
    /\ io.op = "read"
    /\ io.prev.op = "write"
    /\ io.prev.written = enum_ext.items[2]
    /\ io.buf = <<"a", "b", "\n">>

\* every item followed by a newline, in table order
RECURSIVE Lines(_)
Lines(items) ==
    IF items = <<>> THEN <<>> ELSE (Head(items) \o <<"\n">>) \o Lines(Tail(items))

\* C16: a read of the _available attribute (the *_enum_available_read
\* functions) never fails, calls neither get nor set, and produces every item
\* followed by a newline, in table order, whatever get, set and the driver
\* are: nothing for the empty table.
C16_EnumList ==
    io.op = "available_read" =>
        /\ io.err = "OK"
        /\ io.calls = <<>>
        /\ io.buf = Lines(enum_ext.items)
        /\ io.val = Len(io.buf)
        /\ enum_ext.items = <<>> => io.buf = <<>> /\ io.val = 0

\* the two items of a table were listed in table order
C16_Witness ==
    /\ io.op = "available_read"
    /\ enum_ext.items = << <<"b">>, <<"a", "b">> >>
    /\ io.buf = <<"b", "\n", "a", "b", "\n">>
    /\ io.val = 5

\* C17: in the namespace of every published device, the signal attribute is
\* readable iff ops->signal_read is set; the count attribute is readable iff
\* count_read and writable iff count_write is set; function likewise with
\* function_get and function_set; every <prefix>action likewise with
\* action_get and action_set; and the attribute of every extension of a
\* Signal, a Count or the device is readable iff the extension's read is set
\* and writable iff its write is set.
C17_PresenceMirrorsAccessors ==
    \A h \in Wrappers :
        Built(h) =>
            \A gi \in 1..Len(wrappers[h].gl) :
                \A j \in 1..Len(Attrs(h, gi)) :
                    Let(Attrs(h, gi)[j], LAMBDA a :
                    Let(CounterOf(h), LAMBDA c :
                    CASE a.component.kind = "signal_comp_t" ->
                             Readable(a) <=> c.ops["signal_read"]
                      [] a.component.kind = "count_comp_t" /\ a.name = "count" ->
                             /\ Readable(a) <=> c.ops["count_read"]
                             /\ Writable(a) <=> c.ops["count_write"]
                      [] a.component.kind = "count_comp_t" /\ a.name = "function" ->
                             /\ Readable(a) <=> c.ops["function_get"]
                             /\ Writable(a) <=> c.ops["function_set"]
                      [] a.component.kind = "action_comp_t" ->
                             /\ Readable(a) <=> c.ops["action_get"]
                             /\ Writable(a) <=> c.ops["action_set"]
                      [] a.component.kind = "signal_ext_comp_t" ->
                             /\ Readable(a) <=>
                                    c.signals[a.component.signal].ext[a.component.ext].read
                             /\ Writable(a) <=>
                                    c.signals[a.component.signal].ext[a.component.ext].write
                      [] a.component.kind = "count_ext_comp_t" ->
                             /\ Readable(a) <=>
                                    c.counts[a.component.count].ext[a.component.ext].read
                             /\ Writable(a) <=>
                                    c.counts[a.component.count].ext[a.component.ext].write
                      [] a.component.kind = "ext_comp_t" ->
                             /\ Readable(a) <=> c.ext[a.component.ext].read
                             /\ Writable(a) <=> c.ext[a.component.ext].write
                      [] OTHER -> TRUE))

\* a device without signal_read, count_write and function_set is published:
\* its count attribute can be read and not written, and its write-only
\* extension enable can be written and not read
C17_Witness ==
    \E h \in Wrappers :
        /\ Built(h)
        /\ CounterOf(h) = RichDevice
        /\ \E j \in 1..Len(Attrs(h, 4)) :
              /\ Attrs(h, 4)[j].name = "count"
              /\ Readable(Attrs(h, 4)[j]) /\ ~Writable(Attrs(h, 4)[j])
        /\ \E j \in 1..Len(Attrs(h, 5)) :
              /\ Attrs(h, 5)[j].name = "enable"
              /\ ~Readable(Attrs(h, 5)[j]) /\ Writable(Attrs(h, 5)[j])
        /\ ~Readable(Attrs(h, 1)[1])

\* C18: a published device has exactly num_signals + num_counts + 1 groups,
\* handed to the host in this order: for each Signal, in the order of the
\* signals array, a group named signal<id>; then for each Count, in the order
\* of the counts array, a group named count<id>; then one group without a
\* name.  The ids are in the names as they are, equal ids included.
C18_GroupsInOrder ==
    \A h \in Wrappers :
        Built(h) =>
            Let(CounterOf(h), LAMBDA c :
            /\ wrappers[h].num_groups = c.num_signals + c.num_counts + 1
            /\ Len(wrappers[h].gl) = wrappers[h].num_groups
            /\ wrappers[h].dev_groups = wrappers[h].groups
            /\ wrappers[h].groups_array = [i \in 1..wrappers[h].num_groups |-> i]
            /\ \A i \in 1..c.num_signals :
                  wrappers[h].gl[i].name_str = "signal" \o FormatD(c.signals[i].id)
            /\ \A i \in 1..c.num_counts :
                  wrappers[h].gl[c.num_signals + i].name_str
                      = "count" \o FormatD(c.counts[i].id)
            /\ wrappers[h].gl[wrappers[h].num_groups].name_str = NULL_STR
            /\ wrappers[h].gl[wrappers[h].num_groups].name = NULL)

\* a device with two Signals of id 3 and two Counts of id 0 is published
C18_Witness ==
    \E h \in Wrappers :
        /\ Built(h)
        /\ CounterOf(h) = DuplicateIdsDevice
        /\ [i \in 1..5 |-> wrappers[h].gl[i].name_str]
               = <<"signal3", "signal3", "count0", "count0", NULL_STR>>

\* the names of the attributes of an optional name and of extensions
NameAttr(name) == IF name = NULL_STR THEN <<>> ELSE <<"name">>

ExtNames(ext) == [i \in 1..Len(ext) |-> ext[i].name]

\* C19: the group of every Signal of a published device holds exactly: the
\* attribute signal; the attribute name, read-only, iff the Signal has a
\* name; and one attribute per extension of the Signal, with the name of the
\* extension.  They are 1 + (1 if named) + num_ext, and the component of each
\* is of that Signal.
C19_SignalGroup ==
    \A h \in Wrappers :
        Built(h) =>
            \A si \in 1..CounterOf(h).num_signals :
                Let(CounterOf(h).signals[si], LAMBDA signal :
                Let(Attrs(h, si), LAMBDA attrs :
                /\ Names(attrs) = <<"signal">> \o NameAttr(signal.name)
                                      \o ExtNames(signal.ext)
                /\ wrappers[h].gl[si].num_attr = Len(attrs)
                /\ Len(attrs) = 1 + (IF signal.name = NULL_STR THEN 0 ELSE 1)
                                    + Len(signal.ext)
                /\ \A j \in 1..Len(attrs) :
                      CASE attrs[j].component.kind = "signal_comp_t" ->
                               j = 1 /\ attrs[j].component.signal = si
                        [] attrs[j].component.kind = "name_comp_t" ->
                               /\ j = 2
                               /\ attrs[j].component.name = signal.name
                               /\ Readable(attrs[j]) /\ ~Writable(attrs[j])
                        [] attrs[j].component.kind = "signal_ext_comp_t" ->
                               /\ attrs[j].component.signal = si
                               /\ signal.ext[attrs[j].component.ext].name = attrs[j].name
                        [] OTHER -> FALSE))

\* the group of the Signal 7, named "A", with the extension level
C19_Witness ==
    \E h \in Wrappers :
        /\ Built(h)
        /\ CounterOf(h) = RichDevice
        /\ wrappers[h].gl[2].name_str = "signal7"
        /\ Names(Attrs(h, 2)) = <<"signal", "name", "level">>
        /\ Names(Attrs(h, 1)) = <<"signal">>

\* the names of the two attributes of each Synapse from the i-th on
RECURSIVE SynapseNames(_, _)
SynapseNames(synapses, i) ==
    IF i > Len(synapses) THEN <<>>
    ELSE <<"signal" \o FormatD(synapses[i].signal.id) \o "_action",
           "signal" \o FormatD(synapses[i].signal.id) \o "_action_available">>
         \o SynapseNames(synapses, i + 1)

\* C20: the group of every Count of a published device holds exactly: for
\* every Synapse of the Count the attributes signal<id>_action and
\* signal<id>_action_available (read-only), <id> the id of the Synapse's
\* Signal; then count, function, function_available (read-only); name iff
\* the Count has a name; and one attribute per extension of the Count.  They
\* are 2 * num_synapses + 3 + (1 if named) + num_ext, and only the
\* attributes of the Synapses have a prefix before their name.
C20_CountGroup ==
    \A h \in Wrappers :
        Built(h) =>
            \A ci \in 1..CounterOf(h).num_counts :
                Let(CounterOf(h).counts[ci], LAMBDA count :
                Let(Attrs(h, CounterOf(h).num_signals + ci), LAMBDA attrs :
                /\ Names(attrs) = SynapseNames(count.synapses, 1)
                                      \o <<"count", "function", "function_available">>
                                      \o NameAttr(count.name) \o ExtNames(count.ext)
                /\ wrappers[h].gl[CounterOf(h).num_signals + ci].num_attr = Len(attrs)
                /\ Len(attrs) = 2 * count.num_synapses + 3
                                    + (IF count.name = NULL_STR THEN 0 ELSE 1)
                                    + count.num_ext
                /\ \A j \in 1..Len(attrs) :
                      /\ attrs[j].component.kind \in {"action_avail_comp_t",
                                                      "func_avail_comp_t"}
                             => Readable(attrs[j]) /\ ~Writable(attrs[j])
                      /\ attrs[j].component.kind \in {"action_comp_t",
                                                      "action_avail_comp_t"}
                             <=> j <= 2 * count.num_synapses))

\* the group of the Count 12, named "C", with Synapses on the Signals 7 and 3
\* and two extensions
C20_Witness ==
    \E h \in Wrappers :
        /\ Built(h)
        /\ CounterOf(h) = RichDevice
        /\ wrappers[h].gl[4].name_str = "count12"
        /\ Names(Attrs(h, 4))
               = <<"signal7_action", "signal7_action_available", "signal3_action",
                   "signal3_action_available", "count", "function",
                   "function_available", "name", "preset", "dummy">>

\* the device-global group of the registration at h, its attributes in the
\* order of their creation
GlobalAttrs(h) == Attrs(h, wrappers[h].num_groups)

\* C21: the last group of every published device holds exactly: the attribute
\* name iff the device has a name; the read-only attributes num_counts and
\* num_signals, whose show functions produce the decimal number of Counts
\* and of Signals of the device followed by a newline; and one attribute per
\* extension of the device, with the extension's name.
C21_GlobalGroup ==
    \A h \in Wrappers :
        Built(h) =>
            Let(CounterOf(h), LAMBDA c :
            Let(GlobalAttrs(h), LAMBDA attrs :
            /\ Names(attrs) = NameAttr(c.name) \o <<"num_counts", "num_signals">>
                                  \o ExtNames(c.ext)
            /\ \A j \in 1..Len(attrs) :
                  CASE attrs[j].name = "num_counts"
                           /\ attrs[j].component.kind = "size_comp_t" ->
                           /\ Readable(attrs[j]) /\ ~Writable(attrs[j])
                           /\ show(c, NoCaches(c), attrs[j], 0, 0).buf
                                  = FormatD(c.num_counts) \o "\n"
                           /\ show(c, NoCaches(c), attrs[j], 0, 0).err = "OK"
                    [] attrs[j].name = "num_signals"
                           /\ attrs[j].component.kind = "size_comp_t" ->
                           /\ Readable(attrs[j]) /\ ~Writable(attrs[j])
                           /\ show(c, NoCaches(c), attrs[j], 0, 0).buf
                                  = FormatD(c.num_signals) \o "\n"
                           /\ show(c, NoCaches(c), attrs[j], 0, 0).err = "OK"
                    [] attrs[j].component.kind = "name_comp_t" ->
                           j = 1 /\ attrs[j].component.name = c.name
                    [] attrs[j].component.kind = "ext_comp_t" ->
                           c.ext[attrs[j].component.ext].name = attrs[j].name
                    [] OTHER -> FALSE))

\* the last group of the device "qe": two Signals, two Counts, one extension
C21_Witness ==
    \E h \in Wrappers :
        /\ Built(h)
        /\ CounterOf(h) = RichDevice
        /\ Names(GlobalAttrs(h)) = <<"name", "num_counts", "num_signals", "enable">>
        /\ show(RichDevice, NoCaches(RichDevice), GlobalAttrs(h)[3], 0, 0).buf = "2\n"
        /\ show(RichDevice, NoCaches(RichDevice), GlobalAttrs(h)[1], 0, 0).buf = "qe\n"

\* the names of the groups of the registration at h, in the order of the groups
GroupNames(h) == [gi \in 1..wrappers[h].num_groups |-> wrappers[h].gl[gi].name_str]

\* the names of the attributes of every group of the registration at h
AllNames(h) == [gi \in 1..wrappers[h].num_groups |-> Names(Attrs(h, gi))]

\* the statement of C22 as it stands: the device with the Signal 3 and the
\* Count 0 is published with the groups signal3 (empty), count0 (the two
\* attributes of the Synapse, function, function_available) and the last
\* group (num_counts, num_signals), and no other attribute
C22_Original ==
    \A h \in Wrappers :
        Built(h) /\ CounterOf(h) = SimpleDevice =>
            /\ GroupNames(h) = <<"signal3", "count0", NULL_STR>>
            /\ AllNames(h) = << <<>>,
                                <<"signal3_action", "signal3_action_available",
                                  "function", "function_available">>,
                                <<"num_counts", "num_signals">> >>

\* C22: the device with one Signal (id 3, no name, no extension) and one Count
\* (id 0, functions [Increase], one Synapse on the Signal 3 with the actions
\* [RisingEdge, FallingEdge], no extension) is published with exactly: the
\* group signal3 with the attribute signal; the group count0 with
\* signal3_action, signal3_action_available, count, function and
\* function_available; and the last, unnamed group with num_counts and
\* num_signals, which both read "1".
C22_Scenario ==
    \A h \in Wrappers :
        Built(h) /\ CounterOf(h) = SimpleDevice =>
            /\ GroupNames(h) = <<"signal3", "count0", NULL_STR>>
            /\ AllNames(h) = << <<"signal">>,
                                <<"signal3_action", "signal3_action_available",
                                  "count", "function", "function_available">>,
                                <<"num_counts", "num_signals">> >>
            /\ \A j \in 1..2 :
                  show(SimpleDevice, NoCaches(SimpleDevice), GlobalAttrs(h)[j], 0, 0)
                      = Thunk("OK", 2, "1\n", NoCaches(SimpleDevice), FALSE)

\* the device of the scenario is published, with its three groups
C22_Witness ==
    \E h \in Wrappers :
        /\ Built(h)
        /\ CounterOf(h) = SimpleDevice
        /\ wrappers[h].num_groups = 3
        /\ Len(Attrs(h, 2)) = 5

\* the call of the host has returned, and touched no freed memory
Completed == dispatch.phase = "done" /\ dispatch.err # "UB"

\* the attribute the call was made on, and the counter_device it belongs to
Target == Attrs(dispatch.h, dispatch.gi)[dispatch.j]

TargetDevice == wrappers[dispatch.h].drvdata

\* the Count and the Synapse the component of the attribute names
TargetCount == ModelOf(TargetDevice).counts[Target.component.count]

TargetSynapse == TargetCount.synapses[Target.component.synapse]

\* every name of the list followed by a newline, in the order of the list
RECURSIVE TextLines(_)
TextLines(names) ==
    IF names = <<>> THEN "" ELSE Head(names) \o "\n" \o TextLines(Tail(names))

\* C23: a show of a Synapse's <prefix>action_available attribute returns the
\* names of the actions of the Synapse's actions_list, each followed by a
\* newline, in the order of the list, and a show of a Count's
\* function_available attribute the names of the functions of its
\* functions_list likewise, whatever the cached action and function are and
\* whatever the driver's callbacks would return; for the actions
\* [RisingEdge, FallingEdge] it is "rising edge\nfalling edge\n".
C23_AvailableLists ==
    Completed /\ dispatch.op = "show" =>
        /\ Target.component.kind = "action_avail_comp_t" =>
               /\ dispatch.err = "OK"
               /\ dispatch.buf
                      = TextLines([i \in 1..TargetSynapse.num_actions |->
                                      synapse_action_str(TargetSynapse.actions_list[i])])
               /\ dispatch.val = Len(dispatch.buf)
               /\ TargetSynapse.actions_list = Edges2
                      => dispatch.buf = "rising edge\nfalling edge\n"
        /\ Target.component.kind = "func_avail_comp_t" =>
               /\ dispatch.err = "OK"
               /\ dispatch.buf
                      = TextLines([i \in 1..TargetCount.num_functions |->
                                      count_function_str(TargetCount.functions_list[i])])
               /\ dispatch.val = Len(dispatch.buf)

\* signal3_action_available was read while the cached action was not the
\* first of the list
C23_Witness ==
    /\ Completed
    /\ dispatch.op = "show"
    /\ Target.name = "signal3_action_available"
    /\ dispatch.buf = "rising edge\nfalling edge\n"
    /\ caches[TargetDevice].action[1][1] = 1

\* the groups of the wrapper w are built and prepared for the Entity Model
\* counter: the groups list holds a group for every Signal and Count and the
\* last one, the groups array points to all of them, and every group has
\* its array of attribute pointers
GroupsPrepared(w, counter) ==
    /\ w.groups_list # NULL
    /\ w.num_groups = counter.num_signals + counter.num_counts + 1
    /\ Len(w.gl) = w.num_groups
    /\ w.groups # NULL
    /\ w.dev_groups = w.groups
    /\ w.groups_array = [gi \in 1..w.num_groups |-> gi]
    /\ \A gi \in 1..w.num_groups :
          /\ w.gl[gi].attrs # NULL
          /\ w.gl[gi].num_attr = Len(w.gl[gi].attr_list)
          /\ w.gl[gi].attrs_array = AttrPointers(w.gl[gi].attr_list)

\* the steps of C24: device_add makes the device of a wrapper known to the
\* host only in the step of counter_register that has built the groups list
\* and prepared the groups, and that returns 0; a counter_register that
\* returns an error leaves a wrapper the host never held as added
C24_Steps ==
    /\ \A h \in Wrappers :
          host[h] # "added" /\ host'[h] = "added" =>
              /\ host[h] = "initialized"
              /\ pc[wrappers'[h].drvdata] = "build"
              /\ device_state[wrappers'[h].drvdata] = h
              /\ ret' = Return(wrappers'[h].drvdata, "OK", "none")
              /\ GroupsPrepared(wrappers'[h], ModelOf(wrappers'[h].drvdata))
    /\ \A d \in Devices :
          pc[d] = "build" /\ ret'.counter = d /\ ret'.code \notin {"OK", "none"} =>
              /\ host[device_state[d]] = "initialized"
              /\ host'[device_state[d]] = "none"

\* C24: no attribute of a device can be dispatched before device_add: as long
\* as counter_register is building in a wrapper, the host does not hold the
\* device of that wrapper as added; device_add happens only in the step
\* that has built and prepared all groups and returns success; and the
\* device of a counter_register that failed was never added.
C24_PublishAfterBuild ==
    /\ [](\A d \in Devices :
             pc[d] = "build" /\ Live(device_state[d])
                 /\ wrappers[device_state[d]].drvdata = d
                 => host[device_state[d]] = "initialized")
    /\ [][C24_Steps]_vars

\* counter_register has just returned 0: the device is added, its groups
\* are prepared
C24_Witness ==
    \E h \in Wrappers :
        /\ Built(h)
        /\ ret = Return(wrappers[h].drvdata, "OK", "none")
        /\ device_state[wrappers[h].drvdata] = h
        /\ GroupsPrepared(wrappers[h], CounterOf(h))

\* C25: when unregistration races with dispatch, the wrapper, the attribute
\* and the component a show or store in flight uses stay allocated until it
\* has returned, and no show or store can be started on a device whose
\* release callback has begun to free them (the host holds no device as
\* added whose wrapper is freed).
C25_DispatchOnLiveMemory ==
    /\ dispatch.phase = "running" => Allocated(dispatch.h, dispatch.gi, dispatch.j)
    /\ \A h \in Wrappers : host[h] = "added" => Live(h)

\* the call returned an error to the external caller
Failed == Completed /\ dispatch.err \notin {"OK", "OOPS"}

\* the string written is the name of an entry of the list the attribute of
\* the call selects from
NamesAnEntry(written) ==
    CASE Target.store = "counter_action_store" ->
             \E i \in 1..TargetSynapse.num_actions :
                 sysfs_streq(written, synapse_action_str(TargetSynapse.actions_list[i]))
      [] Target.store = "counter_function_store" ->
             \E i \in 1..TargetCount.num_functions :
                 sysfs_streq(written, count_function_str(TargetCount.functions_list[i]))
      [] OTHER -> TRUE

Matches == NamesAnEntry(dispatch.written)

\* the error the call has to return, "OK" if none: Unsupported when the
\* attribute has no function for the direction, EINVAL when the written
\* string names no entry of the list, else the error of the driver's callback
ErrorDue ==
    IF dispatch.op = "show"
    THEN IF ~Readable(Target) THEN "Unsupported"
         ELSE IF Target.component.kind \in {"action_avail_comp_t", "func_avail_comp_t",
                                            "size_comp_t", "name_comp_t"}
         THEN "OK"
         ELSE dispatch.acc.err
    ELSE IF ~Writable(Target) THEN "Unsupported"
         ELSE IF ~Matches THEN "EINVAL"
         ELSE dispatch.acc.err

OutOfRange ==
    /\ Completed
    /\ dispatch.op = "show"
    /\ dispatch.acc.err = "OK"
    /\ \/ /\ Target.show = "counter_action_show"
          /\ dispatch.acc.index >= TargetSynapse.num_actions
       \/ /\ Target.show = "counter_function_show"
          /\ dispatch.acc.index >= TargetCount.num_functions

\* C27: a show of an action or function attribute in which action_get or
\* function_get reports an index that is not below num_actions or
\* num_functions fails with an error; no entry of actions_list or
\* functions_list is read at that index, and the index is not stored in
\* Synapse.action or Count.function, which stay indexes of the lists.
C27_OutOfRangeIndexRejected ==
    /\ OutOfRange => Failed /\ ~dispatch.past
    /\ \A d \in Drivers :
          \A ci \in 1..ModelOf(d).num_counts :
              /\ caches[d].function[ci] < ModelOf(d).counts[ci].num_functions
              /\ \A si \in 1..ModelOf(d).counts[ci].num_synapses :
                    caches[d].action[ci][si]
                        < ModelOf(d).counts[ci].synapses[si].num_actions

\* the index, from 0, of the first name of the list names that the written
\* string equals (a trailing newline aside); Len(names) if there is none
FirstMatch(names, written) ==
    IF \E i \in 1..Len(names) : sysfs_streq(written, names[i])
    THEN (CHOOSE i \in 1..Len(names) :
              /\ sysfs_streq(written, names[i])
              /\ \A l \in 1..(i - 1) : ~sysfs_streq(written, names[l])) - 1
    ELSE Len(names)

\* the caches k of the counter_device after the call of the host, once it
\* has completed as the record call tells: the action of the Synapse or the
\* function of the Count of the attribute holds the index the driver's get
\* reported, or the index of the written name that its set accepted;
\* everything else, and everything after any other call, is as in k
CachesDue(k, call) ==
    IF call.acc.err # "OK" THEN k
    ELSE IF call.op = "show" /\ Target.show = "counter_action_show"
    THEN [k EXCEPT !.action[Target.component.count][Target.component.synapse]
                       = call.acc.index]
    ELSE IF call.op = "show" /\ Target.show = "counter_function_show"
    THEN [k EXCEPT !.function[Target.component.count] = call.acc.index]
    ELSE IF call.op = "store" /\ Target.store = "counter_action_store"
                /\ NamesAnEntry(call.written)
    THEN [k EXCEPT !.action[Target.component.count][Target.component.synapse]
                       = FirstMatch([i \in 1..TargetSynapse.num_actions |->
                                        synapse_action_str(TargetSynapse.actions_list[i])],
                                    call.written)]
    ELSE IF call.op = "store" /\ Target.store = "counter_function_store"
                /\ NamesAnEntry(call.written)
    THEN [k EXCEPT !.function[Target.component.count]
                       = FirstMatch([i \in 1..TargetCount.num_functions |->
                                        count_function_str(TargetCount.functions_list[i])],
                                    call.written)]
    ELSE k

\* the steps of C30
C30_Steps ==
    /\ model' = model
    /\ IF dispatch.phase = "running" /\ dispatch'.phase = "done" /\ dispatch'.err # "UB"
       THEN caches' = [caches EXCEPT
                          ![TargetDevice] = CachesDue(caches[TargetDevice], dispatch')]
       ELSE caches' = caches

\* C30: no step of the Builder, of the lifecycle or of a show or store
\* changes the Entity Model of a counter_device (ids, names, lists, sizes);
\* the only fields written are Synapse.action and Count.function, by the
\* show and store of an action or function attribute, after action_get,
\* function_get, action_set or function_set returned success, with the index
\* that callback reported or accepted; when the callback fails, or a written
\* string names no entry of the list, both are as before.
C30_OnlyCachesWritten == [][C30_Steps]_vars

\* "falling edge" was written to signal3_action, action_set accepted the
\* index 1 and the Synapse holds it
C30_Witness ==
    /\ Completed
    /\ dispatch.op = "store"
    /\ Target.name = "signal3_action"
    /\ dispatch.written = "falling edge\n"
    /\ dispatch.err = "OK"
    /\ caches[TargetDevice].action[1][1] = 1

\* the step is the return of the counter_register of d, on the wrapper at h
\* with the id, in which the request failAt failed
FailedAt(d, h, id, failAt) ==
    /\ pc[d] = "build"
    /\ pc'[d] = "idle"
    /\ device_state[d] = h
    /\ wrappers[h].id = id
    /\ failAt \in DOMAIN Builds[model[d]][h][id]
    /\ ret' = Return(d, Builds[model[d]][h][id][failAt].err,
                     Builds[model[d]][h][id][failAt].at)
    /\ heap' = (heap \ {WrapperLabel(h)}) \cup Builds[model[d]][h][id][failAt].heap
    /\ ida' = (ida \ {id}) \cup Builds[model[d]][h][id][failAt].ida
    /\ wrappers'[h] = Stored(Builds[model[d]][h][id][failAt], d)

\* the steps of C29
C29_Steps ==
    \A d \in {r \in Drivers : pc[r] = "build" /\ pc'[r] = "idle"} :
        \A h \in {device_state[d]} : \A id \in {wrappers[h].id} :
        \A k \in 1..ModelOf(d).num_counts : \A failAt \in CountRequests[model[d]][k] :
            FailedAt(d, h, id, failAt) =>
                /\ ret'.code = "ENOMEM"
                /\ ret'.at = "groups_list"
                /\ {l \in heap' : l[2] = h} = {}
                /\ id \notin ida'
                /\ ~dfree'
                /\ host'[h] = "none"
                /\ Builds[model[d]][h][id][failAt].n = failAt + 1

\* C29: when an allocation fails while counter_counts_register builds the
\* attributes of a Count (the first or a later one), counter_register
\* returns the error with everything released, nothing freed twice: the
\* groups of all Signals and of the Counts built so far with their
\* attributes and components, the groups list, the id and the wrapper; the
\* host does not hold the device, and no request was made after the one
\* that failed: device_add, which comes after the groups, was not reached.
C29_CountFailureUnwinds == [][C29_Steps]_vars

\* the counter_register of the device "qe" has returned ENOMEM after a
\* failure in its second Count: nothing of it is allocated
C29_Witness ==
    \E h \in Wrappers : \E failAt \in CountRequests["rich"][2] :
        /\ model[1] = "rich"
        /\ device_state[1] = h
        /\ pc[1] = "idle"
        /\ ret = Return(1, "ENOMEM", "groups_list")
        /\ Builds["rich"][h][0][failAt].err = "ENOMEM"
        /\ heap = Builds["rich"][h][0][failAt].heap \ {WrapperLabel(h)}
        /\ Owned(h) = {}
        /\ host[h] = "none"

\* what a registration publishes, the addresses of its allocations aside:
\* the names of the groups of the wrapper w and, for every attribute of a
\* group, its name, its show and store functions and its component
Published(w) ==
    [gi \in 1..w.num_groups |->
        [name |-> w.gl[gi].name_str,
         attrs |-> [j \in 1..Len(w.gl[gi].attr_list) |->
                       [name |-> w.gl[gi].attr_list[j].name,
                        show |-> w.gl[gi].attr_list[j].show,
                        store |-> w.gl[gi].attr_list[j].store,
                        component |-> [w.gl[gi].attr_list[j].component
                                           EXCEPT !.p = NULL]]]]]

\* what the first counter_register of the model m publishes on a system
\* where nothing was registered before, no request failing
FirstTime(m) == Published(After(Builds[m][1][0][-1]))

\* the steps of C28: a counter_register of d that returns an error leaves
\* the allocations, counter_ida and the host as they were before it was
\* called; in a later counter_register of d in which no request fails,
\* device_add is reached and 0 returned
C28_Steps ==
    \A d \in Drivers :
        /\ pc[d] = "idle" /\ ret'.counter = d /\ ret'.code \notin {"OK", "none"} =>
               /\ ret'.at \in {"devres_alloc", "kzalloc", "ida"}
               /\ heap' = heap
               /\ ida' = ida
               /\ host' = host
               /\ ~dfree'
        /\ pc[d] = "build" /\ pc'[d] = "idle" /\ ret'.code \notin {"OK", "none"} =>
               /\ heap' = heap \ {WrapperLabel(device_state[d])}
               /\ ida' = ida \ {wrappers[device_state[d]].id}
               /\ host' = [host EXCEPT ![device_state[d]] = "none"]
               /\ wrappers' = [wrappers EXCEPT ![device_state[d]] = EmptyState]
               /\ ~dfree'
        /\ failed[d] /\ pc[d] = "build"
               /\ FailedAt(d, device_state[d], wrappers[device_state[d]].id, -1) =>
               /\ ret' = Return(d, "OK", "none")
               /\ host'[device_state[d]] = "added"

\* C28: after a counter_register of a counter_device has failed (in
\* devres_alloc, kzalloc, ida_simple_get, any allocation of the build, or
\* device_add), a counter_register of the same counter_device in which
\* nothing fails returns 0 and publishes the groups and attributes a first
\* registration publishes; the call that failed left nothing allocated, no
\* id taken and nothing at the host.
C28_RetryAfterFailure ==
    /\ [](\A h \in Wrappers :
             Built(h) /\ failed[wrappers[h].drvdata]
                 => Published(wrappers[h]) = FirstTime(model[wrappers[h].drvdata]))
    /\ [][C28_Steps]_vars

\* the device "qe" is published by a counter_register that came after a
\* failed one
C28_Witness ==
    \E h \in Wrappers :
        /\ model[1] = "rich"
        /\ failed[1]
        /\ Built(h)
        /\ device_state[1] = h
        /\ ret = Return(1, "OK", "none")
        /\ Published(wrappers[h]) = FirstTime("rich")

\* C31: callers at the same time, the callbacks of the driver atomic: once
\* every show and store of a function or action attribute has returned, the
\* cached Count.function and Synapse.action of a published device are the
\* modes the driver confirmed last, i.e. the modes the hardware is in.
C31_CacheIsCurrent ==
    Quiet =>
        \A h \in Wrappers :
            Built(h) => caches[wrappers[h].drvdata] = hardware[wrappers[h].drvdata]

\* the requests of a build whose allocations make up group g: its name, its
\* attributes, their names and components
GroupRequests(g) ==
    {p[3] : p \in ({g.name} \cup UNION {{g.attr_list[j].p, g.attr_list[j].name_p,
                                         g.attr_list[j].component.p} :
                                            j \in 1..Len(g.attr_list)}) \ {NULL}}

\* the group each request of a build of model m allocates for (0: none, as
\* the groups list itself and the prefix of a Synapse)
OwnerGroup ==
    [m \in ModelNames |->
        [n \in 0..(NumRequests[m] - 1) |->
            Let(Lists[m][1][0][-1].gl, LAMBDA gl :
            IF \E gi \in 1..Len(gl) : n \in GroupRequests(gl[gi])
            THEN CHOOSE gi \in 1..Len(gl) : n \in GroupRequests(gl[gi])
            ELSE 0)]]

\* the groups whose allocations prepare_counter_device_groups_list releases
\* when request failAt fails, in the order of the kfree calls
Released ==
    [m \in ModelNames |->
        [failAt \in -1..(NumRequests[m] - 1) |->
            Let(SelectSeq(Lists[m][1][0][failAt].freed,
                          LAMBDA p : OwnerGroup[m][p[3]] # 0), LAMBDA freed :
            [i \in 1..Len(freed) |-> OwnerGroup[m][freed[i][3]]])]]

\* 1: the group gi of counter is the group of a Signal, 2: of a Count, 3: the
\* group of the device
Section(counter, gi) ==
    IF gi <= counter.num_signals THEN 1
    ELSE IF gi <= counter.num_signals + counter.num_counts THEN 2 ELSE 3

\* the same of the request failAt: what was under construction when it failed
FailingSection(counter, failAt) ==
    IF failAt < RequestsBefore(counter, 1) THEN 1
    ELSE IF failAt < RequestsBefore(counter, counter.num_counts + 1) THEN 2 ELSE 3

FailingSections ==
    [m \in ModelNames |->
        [failAt \in 0..(NumRequests[m] - 1) |-> FailingSection(DeviceModel[m], failAt)]]

\* the builds of model m that prepare_counter_device_groups_list aborts: the
\* requests that fail with ENOMEM inside it (none for a model whose build
\* without a failure does not succeed)
Aborted ==
    [m \in ModelNames |->
        IF Lists[m][1][0][-1].err # "OK" THEN {}
        ELSE {failAt \in 0..(NumRequests[m] - 1) :
                 /\ Lists[m][1][0][failAt].err = "ENOMEM"
                 /\ Lists[m][1][0][failAt].n = failAt + 1}]

\* the groups are released from the group under construction back to the
\* first Signal group
Backwards(m, failAt) ==
    Let(Released[m][failAt], LAMBDA r :
    \A i, j \in 1..Len(r) : i < j => r[i] >= r[j])

\* the groups of the loop that failed are released first, from the most
\* recent back to its first; the groups of the loops before it after them,
\* from the first Signal group on; the groups list last
LoopBackwardsRestForwards(m, failAt) ==
    Let(Released[m][failAt], LAMBDA r :
    Let(FailingSections[m][failAt], LAMBDA s :
    /\ \A i, j \in 1..Len(r) :
          i < j =>
             IF Section(DeviceModel[m], r[i]) = s
             THEN Section(DeviceModel[m], r[j]) = s => r[i] >= r[j]
             ELSE Section(DeviceModel[m], r[j]) # s /\ r[i] <= r[j]
    /\ \A i \in 1..Len(r) : Section(DeviceModel[m], r[i]) <= s
    /\ Let(Lists[m][1][0][failAt].freed, LAMBDA freed :
       IF failAt = 0 THEN freed = <<>>
       ELSE freed # <<>> /\ freed[Len(freed)] = Lists[m][1][0][failAt].glp)))

ReleasedBackwards == [m \in ModelNames |-> {failAt \in Aborted[m] : Backwards(m, failAt)}]

ReleasedInOrder ==
    [m \in ModelNames |-> {failAt \in Aborted[m] : LoopBackwardsRestForwards(m, failAt)}]

\* a register call of d is about to build
AboutToBuild(d) == pc[d] = "build" /\ Live(device_state[d])

\* C32 as stated: on an aborted build the allocations are released group by
\* group from the group under construction back to the first Signal group,
\* whichever request of the build failed.
C32_Original ==
    \A d \in Drivers : AboutToBuild(d) => ReleasedBackwards[model[d]] = Aborted[model[d]]

\* C32: whichever request of the build of a register call fails: on an
\* aborted build the endpoints of the group under construction
\* are released first, then the groups built before it in the same loop (the
\* Signal groups when a Signal group fails, the Count groups when a Count
\* group fails) from the most recent to the first; the groups of the loops
\* that had completed (the Signal groups when a Count fails, the Signal and
\* Count groups when the group of the device fails) are released after them
\* from the first Signal group to the last group built; the groups list is
\* released last (nothing is, when the groups list is what failed).
C32_ReleaseOrder ==
    \A d \in Drivers : AboutToBuild(d) => ReleasedInOrder[model[d]] = Aborted[model[d]]

\* the register call of the device "qe" is about to build; a failure in its
\* second Count releases the second Count group, the first, and then the two
\* Signal groups from the first on
C32_Witness ==
    /\ model[1] = "rich"
    /\ AboutToBuild(1)
    /\ \E failAt \in Aborted["rich"] :
          /\ failAt \in CountRequests["rich"][2]
          /\ \E i, j, k \in 1..Len(Released["rich"][failAt]) :
                /\ i < j /\ j < k
                /\ Released["rich"][failAt][i] = 3
                /\ Released["rich"][failAt][j] = 1
                /\ Released["rich"][failAt][k] = 2

\* the names of the attributes in the array attr_group.attrs of group gi of
\* the registration at h, as the host finds them there
ArrayNames(h, gi) ==
    [j \in 1..Len(wrappers[h].gl[gi].attrs_array) |->
        wrappers[h].gl[gi].attr_list[
            CHOOSE k \in 1..Len(wrappers[h].gl[gi].attr_list) :
                wrappers[h].gl[gi].attr_list[k].p = wrappers[h].gl[gi].attrs_array[j]
        ].name]

\* the requests that allocated the attributes of that array, in its order:
\* an attribute created later has the greater request
ArrayRequests(h, gi) ==
    [j \in 1..Len(wrappers[h].gl[gi].attrs_array) |-> wrappers[h].gl[gi].attrs_array[j][3]]

\* C33 as stated: the attribute array of every group of a published device
\* lists the attributes in the order of their creation.
C33_Original ==
    \A h \in Wrappers :
        Built(h) =>
            \A gi \in 1..wrappers[h].num_groups :
                /\ ArrayNames(h, gi) = Names(Attrs(h, gi))
                /\ \A j, k \in 1..Len(ArrayRequests(h, gi)) :
                      j < k => ArrayRequests(h, gi)[j] < ArrayRequests(h, gi)[k]

\* C33: the attribute array of every group of a published device holds each
\* attribute of the group once, in the reverse of the order of their
\* creation: in a Signal group the extensions from the last declared to the
\* first, then name, then signal; in a Count group the extensions from the
\* last to the first, name, function_available, function, count, then the
\* attributes of the Synapses from the last Synapse to the first.
C33_ArrayInReverseCreationOrder ==
    \A h \in Wrappers :
        Built(h) =>
            Let(CounterOf(h), LAMBDA c :
            /\ \A gi \in 1..wrappers[h].num_groups :
                  /\ Len(wrappers[h].gl[gi].attrs_array) = wrappers[h].gl[gi].num_attr
                  /\ ArrayNames(h, gi) = Reverse(Names(Attrs(h, gi)))
                  /\ \A j, k \in 1..Len(ArrayRequests(h, gi)) :
                        j < k => ArrayRequests(h, gi)[j] > ArrayRequests(h, gi)[k]
            /\ \A si \in 1..c.num_signals :
                  ArrayNames(h, si)
                      = Reverse(<<"signal">> \o NameAttr(c.signals[si].name)
                                    \o ExtNames(c.signals[si].ext))
            /\ \A ci \in 1..c.num_counts :
                  ArrayNames(h, c.num_signals + ci)
                      = Reverse(SynapseNames(c.counts[ci].synapses, 1)
                                    \o <<"count", "function", "function_available">>
                                    \o NameAttr(c.counts[ci].name)
                                    \o ExtNames(c.counts[ci].ext)))

\* the device "qe" is published: the array of its group signal7 and that of
\* its group count12
C33_Witness ==
    \E h \in Wrappers :
        /\ Built(h)
        /\ CounterOf(h) = RichDevice
        /\ ArrayNames(h, 2) = <<"level", "name", "signal">>
        /\ ArrayNames(h, 4)
               = <<"dummy", "preset", "name", "function_available", "function", "count",
                   "signal3_action_available", "signal3_action",
                   "signal7_action_available", "signal7_action">>

\* the Entity Model c with every accessor set and every extension given a
\* read and a write
AllAccessors(ext) == [i \in 1..Len(ext) |-> Ext(ext[i].name, TRUE, TRUE)]

WithAccessors(c) ==
    [c EXCEPT
        !.ops = AllOps,
        !.ext = AllAccessors(@),
        !.signals = [i \in 1..Len(c.signals) |->
                        [c.signals[i] EXCEPT !.ext = AllAccessors(@)]],
        !.counts = [i \in 1..Len(c.counts) |->
                       [c.counts[i] EXCEPT
                           !.ext = AllAccessors(@),
                           !.synapses = [k \in 1..Len(c.counts[i].synapses) |->
                                            [c.counts[i].synapses[k] EXCEPT
                                                !.signal.ext = AllAccessors(@)]]]]]

\* what a register call without a failing request returns on each model, the
\* requests it makes, the names of the groups and of their attributes it
\* leaves: as the model is, and with every accessor set
Outcome(b) ==
    [err |-> b.err, n |-> b.n,
     names |-> [gi \in 1..Len(b.gl) |-> <<b.gl[gi].name_str, Names(b.gl[gi].attr_list)>>]]

AsDeclared == [m \in ModelNames |-> Outcome(Builds[m][1][0][-1])]

AccessorsSet ==
    [m \in ModelNames |->
        Outcome(counter_register_build(FreshCall(1, 0, -1), WithAccessors(DeviceModel[m])))]

\* the attribute a has neither a show nor a store function and is in the
\* array attr_group.attrs of group gi of the registration at h
ListedBare(h, gi, a) ==
    /\ ~Readable(a) /\ ~Writable(a)
    /\ \E j \in 1..Len(wrappers[h].gl[gi].attrs_array) :
          wrappers[h].gl[gi].attrs_array[j] = a.p

\* the attribute of group gi of the registration at h for extension i (kind
\* is the type of its component)
ExtAttrs(h, gi, kind, i) ==
    {j \in 1..Len(Attrs(h, gi)) :
        /\ Attrs(h, gi)[j].component.kind = kind
        /\ Attrs(h, gi)[j].component.ext = i}

\* C34: missing accessors make no registration fail and no attribute
\* disappear.  A register call returns on a device what it returns on the
\* same device with every accessor set, with the same groups and attribute
\* names; and in a published device every extension with neither read nor
\* write (of a Signal, a Count or the device) has its attribute, with its
\* name, in its group and in the attribute array, with no show and no store
\* function, and so has the signal attribute of every Signal when signal_read
\* is not set.
C34_MissingAccessorsKeepEndpoints ==
    /\ \A d \in Drivers : AboutToBuild(d) => AsDeclared[model[d]] = AccessorsSet[model[d]]
    /\ \A h \in Wrappers :
          Built(h) =>
              Let(CounterOf(h), LAMBDA c :
              /\ \A si \in 1..c.num_signals :
                    /\ ~c.ops["signal_read"] =>
                           /\ Attrs(h, si)[1].name = "signal"
                           /\ ListedBare(h, si, Attrs(h, si)[1])
                    /\ \A i \in 1..Len(c.signals[si].ext) :
                           (~c.signals[si].ext[i].read /\ ~c.signals[si].ext[i].write) =>
                               \E j \in ExtAttrs(h, si, "signal_ext_comp_t", i) :
                                   /\ Attrs(h, si)[j].name = c.signals[si].ext[i].name
                                   /\ Attrs(h, si)[j].component.signal = si
                                   /\ ListedBare(h, si, Attrs(h, si)[j])
              /\ \A ci \in 1..c.num_counts :
                    \A i \in 1..Len(c.counts[ci].ext) :
                        (~c.counts[ci].ext[i].read /\ ~c.counts[ci].ext[i].write) =>
                            \E j \in ExtAttrs(h, c.num_signals + ci, "count_ext_comp_t", i) :
                                /\ Attrs(h, c.num_signals + ci)[j].name
                                       = c.counts[ci].ext[i].name
                                /\ ListedBare(h, c.num_signals + ci,
                                              Attrs(h, c.num_signals + ci)[j])
              /\ \A i \in 1..Len(c.ext) :
                    (~c.ext[i].read /\ ~c.ext[i].write) =>
                        \E j \in ExtAttrs(h, wrappers[h].num_groups, "ext_comp_t", i) :
                            /\ GlobalAttrs(h)[j].name = c.ext[i].name
                            /\ ListedBare(h, wrappers[h].num_groups, GlobalAttrs(h)[j]))

\* a device without any accessor, whose three extensions have neither read
\* nor write, is published: counter_register returned 0, and the attributes
\* signal and raw of its Signal and raw of its Count and of the device are
\* there without show and store
C34_Witness ==
    \E h \in Wrappers :
        /\ Built(h)
        /\ CounterOf(h) = NoAccessorsDevice
        /\ ret = Return(wrappers[h].drvdata, "OK", "none")
        /\ Names(Attrs(h, 1)) = <<"signal", "raw">>
        /\ \A j \in 1..2 : ListedBare(h, 1, Attrs(h, 1)[j])
        /\ \E j \in 1..Len(Attrs(h, 2)) :
              Attrs(h, 2)[j].name = "raw" /\ ListedBare(h, 2, Attrs(h, 2)[j])
        /\ \E j \in 1..Len(Attrs(h, 3)) :
              Attrs(h, 3)[j].name = "raw" /\ ListedBare(h, 3, Attrs(h, 3)[j])

\* the names of the entries of the list the function or action attribute of
\* the call selects from, in the order of the list
TargetNames ==
    IF Target.store = "counter_action_store"
    THEN [i \in 1..TargetSynapse.num_actions |->
             synapse_action_str(TargetSynapse.actions_list[i])]
    ELSE [i \in 1..TargetCount.num_functions |->
             count_function_str(TargetCount.functions_list[i])]

\* the setter of the driver behind that attribute
TargetSetter ==
    IF Target.store = "counter_action_store" THEN "action_set" ELSE "function_set"

\* the step is the store of the string call.written to a function or action
\* attribute, which returns as the record call tells
StoreOfMode(call) ==
    /\ dispatch.phase = "running"
    /\ call.phase = "done"
    /\ call.err # "UB"
    /\ call.op = "store"
    /\ Target.store \in {"counter_action_store", "counter_function_store"}

\* a store of a string that names no entry of the list fails with EINVAL,
\* calls nothing and leaves the caches as they are
Rejected(call) ==
    /\ call.err = "EINVAL"
    /\ call.calls = <<>>
    /\ caches' = caches

\* the steps of C35 as stated
C35_OriginalSteps ==
    StoreOfMode(dispatch') =>
        IF ~NamesAnEntry(dispatch'.written) THEN Rejected(dispatch')
        ELSE /\ dispatch'.calls
                    = <<[fn |-> TargetSetter,
                         index |-> FirstMatch(TargetNames, dispatch'.written)]>>
             /\ dispatch'.err = "OK"
             /\ dispatch'.val = Len(dispatch'.written)

\* C35 as stated: a store of a string that names no available action
\* (function) fails, calls no setter and leaves the cache; a store of a
\* string that names one calls the setter once with its position and returns
\* the length of the input.
C35_Original == [][C35_OriginalSteps]_vars

\* the steps of C35
C35_Steps ==
    StoreOfMode(dispatch') =>
        IF ~NamesAnEntry(dispatch'.written) THEN Rejected(dispatch')
        ELSE /\ dispatch'.calls
                    = <<[fn |-> TargetSetter,
                         index |-> FirstMatch(TargetNames, dispatch'.written)]>>
             /\ IF dispatch'.acc.err = "OK"
                THEN /\ dispatch'.err = "OK"
                     /\ dispatch'.val = Len(dispatch'.written)
                ELSE /\ dispatch'.err = dispatch'.acc.err
                     /\ caches' = caches

\* C35: a store to the action attribute of a Synapse (the function attribute
\* of a Count) of a string that is not the name of an entry of its
\* actions_list (functions_list), the name of another action (function)
\* included, returns -EINVAL, calls no callback of the driver and leaves the
\* caches as they are.  A store of a string that is calls action_set
\* (function_set) once, with the position of the first entry of that name in
\* the list; when the setter returns 0 the store returns the length of the
\* input, and when the setter fails the store returns the setter's error and
\* the caches are as they were.
C35_StoreOfMode == [][C35_Steps]_vars

\* "both edges", an action the Synapse does not list, was written to
\* signal3_action: the store failed and made no call
C35_Witness ==
    /\ Completed
    /\ dispatch.op = "store"
    /\ Target.name = "signal3_action"
    /\ dispatch.written = "both edges"
    /\ dispatch.err = "EINVAL"
    /\ dispatch.calls = <<>>
    /\ caches[TargetDevice].action[1][1] \in {0, 1}

\* the result r of a call of the adapter without the level of the adapter:
\* each callback call without the Signal or Count it was passed
Levelless(r) ==
    [r EXCEPT !.calls = [i \in 1..Len(r.calls) |-> [r.calls[i] EXCEPT !.ctx = "any"]]]

\* the three results are one
Agree(signal_level, count_level, device_level) ==
    /\ Levelless(signal_level) = Levelless(count_level)
    /\ Levelless(count_level) = Levelless(device_level)

\* C36: on the same enum extension (items, num_items, get and set set or
\* not), with the same driver behind get and set and the same input,
\* counter_signal_enum_read, counter_count_enum_read and
\* counter_device_enum_read return the same value and text and make the same
\* get call; the three *_enum_write functions return the same value, make the
\* same set call and leave the driver in the same state; the three
\* *_enum_available_read functions return the same text.
C36_EnumAdaptersEquivalent ==
    /\ Agree(counter_signal_enum_read(enum_ext, driver),
             counter_count_enum_read(enum_ext, driver),
             counter_device_enum_read(enum_ext, driver))
    /\ \A buf \in Written :
           Agree(counter_signal_enum_write(enum_ext, driver, buf, Len(buf)),
                 counter_count_enum_write(enum_ext, driver, buf, Len(buf)),
                 counter_device_enum_write(enum_ext, driver, buf, Len(buf)))
    /\ Agree(counter_signal_enum_available_read(enum_ext, driver),
             counter_count_enum_available_read(enum_ext, driver),
             counter_device_enum_available_read(enum_ext, driver))

\* a write through the device-level adapter set the second item, and the
\* same write through the Signal-level adapter sets the same item and returns
\* the same length
C36_Witness ==
    /\ enum_ext.kind = "device"
    /\ io.op = "write"
    /\ io.err = "OK"
    /\ Len(io.calls) = 1
    /\ io.calls[1].index = 1
    /\ driver.index = 1
    /\ Let(counter_signal_enum_write(enum_ext, driver, io.written, Len(io.written)),
           LAMBDA r : /\ r.err = "OK"
                      /\ r.val = io.val
                      /\ r.calls = <<[fn |-> "set", ctx |-> "signal", index |-> 1]>>)

\* the call that ends as b released nothing twice: every kfree was of a live
\* allocation, no pointer was passed to kfree twice, and ida_simple_remove
\* was called at most once
ReleasedOnce(b) ==
    /\ ~b.dfree
    /\ \A i \in 1..Len(b.freed) : \A j \in 1..Len(b.freed) :
           i # j => b.freed[i] # b.freed[j]
    /\ Len(b.returned) <= 1

\* whichever request fails, counter_register on wrapper h with id releases
\* nothing twice; it returns the id once when it fails and not at all when it
\* succeeds or its thread is killed
RegisterReleasesOnce ==
    [m \in ModelNames |->
        [h \in Wrappers |->
            [id \in Ids |->
                \A failAt \in DOMAIN Builds[m][h][id] :
                    Let(Builds[m][h][id][failAt], LAMBDA b :
                        /\ ReleasedOnce(b)
                        /\ b.returned = IF b.err \in {"OK", "OOPS"} THEN <<>> ELSE <<id>>
                        /\ b.err \notin {"OK", "OOPS"} => b.heap = {})]]]

\* the wrapper the release callback of the device in wrapper h works on
ReleasedBy(h) == device_state[wrappers[h].drvdata]

\* the release callback of the device in wrapper h is due and the pointers it
\* follows are good
ReleaseDue(h) ==
    /\ Running
    /\ host[h] = "deleted"
    /\ Live(h)
    /\ Live(ReleasedBy(h))
    /\ wrappers[ReleasedBy(h)].drvdata = wrappers[h].drvdata

\* C37: no kfree has been called on a pointer that is no live allocation;
\* whenever a register call is about to build, whichever single request
\* (allocation or device_add) fails, its unwinding passes no pointer to kfree
\* twice, although free_counter_device_attr_list runs on the same group more
\* than once, and returns the id once; and whenever the release callback is
\* due, it passes no pointer to kfree twice, frees the wrapper and returns
\* the id, which is allocated, once.
C37_ReleasedOnce ==
    /\ ~dfree
    /\ \A d \in Devices :
           AboutToBuild(d) =>
               RegisterReleasesOnce[model[d]][device_state[d]][wrappers[device_state[d]].id]
    /\ \A h \in Wrappers :
           ReleaseDue(h) =>
               Let(counter_device_release(Call(ReleasedBy(h), -1)), LAMBDA b :
                   /\ ReleasedOnce(b)
                   /\ b.returned = <<wrappers[ReleasedBy(h)].id>>
                   /\ wrappers[ReleasedBy(h)].id \in ida
                   /\ b.freed[Len(b.freed)] = WrapperLabel(ReleasedBy(h)))

\* a register call of the device with extensions on its Signals has failed
\* inside the build of the groups and unwound: nothing of its wrapper is
\* left, its id is returned, and no kfree went wrong
C37_Witness ==
    /\ ret.code = "ENOMEM"
    /\ ret.at = "groups_list"
    /\ model[ret.counter] = "rich"
    /\ {l \in heap : l[2] = device_state[ret.counter]} = {}
    /\ ida = {}
    /\ ~dfree
    /\ \E failAt \in DOMAIN Builds["rich"][1][0] :
           Let(Builds["rich"][1][0][failAt], LAMBDA b :
               /\ b.err = "ENOMEM"
               /\ \E i \in 1..Len(b.freed) : b.freed[i][1] = "signal_ext_comp")

\* the last step was a (devm_)counter_register of d that returned an error
RegisterJustFailed(d) == ret.counter = d /\ ret.code \notin {"OK", "none"}

\* the steps of C38
C38_Steps ==
    \A d \in Devices :
        RegisterJustFailed(d) =>
            /\ device_state[d] = NULL_STATE \/ Live(device_state[d])
            /\ Unregister(d) => ~uaf'

\* C38: once counter_register of a device has returned an error,
\* counter->device_state is null or points to a live wrapper, and a
\* counter_unregister of the device called next reads no freed memory.
C38_NoDanglingDeviceState == [][C38_Steps]_vars

\* C39: while a device is published (added to the host, its wrapper live),
\* the cached action of each of its Synapses is an index of the Synapse's
\* actions_list and the cached function of each of its Counts is an index of
\* the Count's functions_list.
C39_CachedIndexInRange ==
    \A h \in Wrappers :
        (host[h] = "added" /\ Live(h)) =>
            Let(wrappers[h].drvdata, LAMBDA d :
                \A ci \in 1..ModelOf(d).num_counts :
                    /\ caches[d].function[ci] \in 0..(ModelOf(d).counts[ci].num_functions - 1)
                    /\ \A si \in 1..ModelOf(d).counts[ci].num_synapses :
                           caches[d].action[ci][si]
                               \in 0..(ModelOf(d).counts[ci].synapses[si].num_actions - 1))

\* the devices whose counter->device_state is the wrapper at h, the wrapper
\* being that of a registration of theirs
Referents(h) == {d \in Devices : device_state[d] = h /\ wrappers[h].drvdata = d}

\* C40: every live wrapper is the device_state of exactly one counter_device,
\* and every id counter_ida has handed out is the id of exactly one such
\* wrapper; so the wrapper, the id and the groups of a registration stay
\* within reach of the device, a second counter_register on it included.
C40_NothingOrphaned ==
    /\ \A h \in Wrappers : Live(h) => Cardinality(Referents(h)) = 1
    /\ \A id \in ida :
           Cardinality({h \in Wrappers :
                           /\ Live(h)
                           /\ wrappers[h].id = id
                           /\ Referents(h) # {}}) = 1

====
